---- MODULE Spec2Model ----
(***************************************************************************)
(* Model of the job launcher / orchestration layer of portfolioGuardian:  *)
(*   - the three batch launchers of src/headless-ai-browser                *)
(*     (crawler-launcher.py, launcher.py, stock-launcher.py), and          *)
(*   - the Job Service of src/headless-ai-browser/server.py, and           *)
(*   - the news fetcher and the brief generator of                        *)
(*     src/global_news_fetcher (fetch_news.py,                             *)
(*     generate_analysis_briefs.py).                                       *)
(* The parts share no state.  Specifications:                             *)
(*   LauncherSpec     the launchers alone                                  *)
(*   ServiceSpec      the service, each handler as its registry effect     *)
(*   ServiceFairSpec  ServiceSpec with the run_crawler threads scheduled   *)
(*   ClientSpec       the service's handlers statement by statement, one   *)
(*                    request at a time                                    *)
(*   HttpSpec         the same with two requests in flight                 *)
(*   TimedSpec        ServiceSpec with a clock that advances               *)
(*   ProgramSpec      either a launcher or the service is run              *)
(*   LauncherFairSpec a CrawlerLauncher whose threads are scheduled and    *)
(*                    whose workers exit or reach their deadline           *)
(*   RerunSpec        a launcher whose run_all_* are called repeatedly     *)
(*   NewsSpec         the periodic runs of fetch_news.main                 *)
(*   BriefSpec        calls of generate_briefs_for_articles                *)
(***************************************************************************)
EXTENDS Integers, Sequences, FiniteSets, TLC

(***************************************************************************)
(* Bounds of the model.                                                    *)
(***************************************************************************)
\* largest batch a launcher is given (add_job / add_instance / add_stock calls)
MaxBatch == 2

\* how many times run_all_parallel / run_all_sequential are called on one
\* launcher where calling again is what is looked at
MaxCalls == 2

\* most submissions POST /crawl accepts in one behaviour
MaxJobs == 2

\* the submissions a behaviour of the request handlers is sent at most
MaxHttpJobs == 1

\* the submissions a behaviour is sent at most while the clock advances
MaxTimedJobs == 1

\* the last reading of the clock
MaxClock == 3

\* how many times fetch_news_periodically runs fetch_news.main
MaxRuns == 2

\* most articles the news API returns in one response
MaxFetched == 2

\* most articles generate_briefs_for_articles is given
MaxArticles == 2

\* how many times generate_briefs_for_articles is called on the same articles
MaxBriefCalls == 2

(***************************************************************************)
(* Program constants.                                                      *)
(***************************************************************************)
\* subprocess.run(..., timeout=600) in CrawlerLauncher.run_instance
CrawlerTimeout == 600

\* subprocess.run(..., timeout=120) in ScraperLauncher.run_instance
ScraperTimeout == 120

\* subprocess.run(..., timeout=600) in StockGuardianLauncher.run_instance
StockTimeout == 600

(***************************************************************************)
(* Input domains.                                                          *)
(***************************************************************************)
\* the three launcher classes
Kinds == {"crawler", "scraper", "stock"}

\* What a caller passes to add_job / add_instance / add_stock: the topic, link
\* or ticker (label), the goal or prompt (add_stock takes none), the sources
\* (add_instance takes none) and the optional metadata.  metadata is <<>>
\* (None) when the caller leaves it out; otherwise it is a dict object, a
\* sequence of key/value pairs in insertion order.  The caller of the second
\* descriptor builds its dict once (same_dict) and passes that one object in
\* every call it makes with this descriptor.
Descriptors ==
    { [label |-> "AAPL", goal |-> "risks", sources |-> <<"https://a.test">>,
       metadata |-> <<>>, same_dict |-> FALSE],
      [label |-> "MSFT", goal |-> "news", sources |-> <<>>,
       metadata |-> << <<<<"headless", 1>>>> >>, same_dict |-> TRUE] }

\* topic / link / ticker labels a caller passes to add_job
Labels == {d.label : d \in Descriptors}

\* What subprocess.run reports of a worker that exited on its own (the
\* CompletedProcess): exit code, captured standard output and standard error.
\* Standard output is a sequence of tokens: "ws" is a run of whitespace,
\* "{\"risk\": 1}" is the text of one JSON document, "text" is diagnostic
\* text that is not JSON.
WorkerOutputs ==
    { [returncode |-> 0, stdout |-> <<"{\"risk\": 1}", "ws">>, stderr |-> "warn"],
      [returncode |-> 0, stdout |-> <<"text", "ws">>,          stderr |-> ""],
      [returncode |-> 1, stdout |-> <<"{\"risk\": 1}">>,       stderr |-> "boom"],
      [returncode |-> 2, stdout |-> <<"text">>,                stderr |-> "boom"] }

\* str(e) of the OSError raised when the worker cannot be started
SpawnErrors == {"[Errno 2] No such file or directory: 'node'"}

(***************************************************************************)
(* State.                                                                  *)
(***************************************************************************)
VARIABLES
    \* ---- batch launchers ----
    kind,           \* which launcher class this launcher is
    instances,      \* self.instances: the added jobs, in submission order
    lpc,            \* where the caller of the launcher is
    calls_left,     \* how many more times the caller calls run_all_*
    li,             \* loop index of the for-loop run_all_* is in
    tpc,            \* per job: where its run_instance execution is
    proc,           \* per job: the worker process started for it
    result_queue,   \* the queue.Queue run_instance puts its Result on
    results,        \* the list run_all_* builds and returns

    \* ---- Job Service ----
    jobs,           \* the module-level dict `jobs`: job_id -> job dict
    next_id,        \* how many job ids uuid.uuid4() has handed out, plus one
    clock,          \* what datetime.utcnow() returns; it is read, never
                    \* advanced: no property stated here compares times
    rc_pc,          \* per job id: the line its run_crawler thread is at
    rc_exc,         \* per job id: str(e) of the exception run_crawler handles
    wproc,          \* per job id: the worker process run_crawler started
    job_limit,      \* how many submissions this behaviour is sent at most
    hreq,           \* per request-handling thread of the server: the request
                    \* it is in the middle of, with the handler's locals
    submitted,      \* per job id: the body of the POST that created it
    threads,        \* per job id: how many run_crawler threads were started
    spawns,         \* per job id: how many worker processes were started
    rc_cmd,         \* per job id: the local `cmd` of its run_crawler thread,
                    \* from the start of the thread until subprocess.run
    resp,           \* the HTTP response the step just taken sent, if any

    \* ---- news fetcher and brief generator ----
    news_file,      \* the content of news_articles.json
    fetch_runs,     \* how many runs of fetch_news.main have ended
    articles,       \* the list generate_briefs_for_articles is given
    gpc,            \* where the caller of generate_briefs_for_articles is
    gi,             \* index of the article its for-loop is at
    brief_calls,    \* how many calls of generate_briefs_for_articles were made
    briefs,         \* the list of brief entries the running call has built
    gevent          \* what the step just taken did for one article, if anything

lvars == <<kind, instances, lpc, calls_left, li, tpc, proc, result_queue, results>>

\* the registry, the run_crawler threads and their workers
rvars == <<jobs, next_id, clock, rc_pc, rc_exc, wproc>>

\* the clients' requests and the threads that handle them
cvars == <<job_limit, hreq, submitted>>

\* what was started for each job
tvars == <<threads, spawns, rc_cmd>>

svars == <<rvars, cvars, tvars, resp>>

\* news_articles.json and the runs of fetch_news.main
nvars == <<news_file, fetch_runs>>

\* a run of generate_briefs_for_articles
bvars == <<articles, gpc, gi, brief_calls, briefs, gevent>>

gvars == <<nvars, bvars>>

vars == <<lvars, svars, gvars>>

Slots == 1..MaxBatch

N == Len(instances)

\* a worker process that was never started
NoProc == [state |-> "none", desc |-> FALSE]

(***************************************************************************)
(* Launchers: pure helpers.                                                *)
(***************************************************************************)
\* the timeout= argument of subprocess.run in each launcher
TimeoutOf(k) ==
    CASE k = "crawler" -> CrawlerTimeout
      [] k = "scraper" -> ScraperTimeout
      [] k = "stock"   -> StockTimeout

\* (mutant) the message of one launcher copied into the others unchanged
TimeoutMessageCopied(k) == "Timeout after 600 seconds"

\* the error string of the `except subprocess.TimeoutExpired` branch
TimeoutMessage(k) ==
    CASE k = "crawler" -> "Timeout after 600 seconds"
      [] k = "scraper" -> "Timeout after 120 seconds"
      [] k = "stock"   -> "Timeout after 600 seconds"

\* (mutant) success reported without looking at the exit code
ExitResultAlwaysSuccess(i, inst, p) ==
    [idx |-> i, instance |-> inst,
     success |-> TRUE,
     stdout |-> p.stdout, stderr |-> p.stderr, returncode |-> p.returncode]

\* The Result dict of a worker that exited by itself.  `instance` stands for
\* the descriptive keys the dict echoes (topic/goal/sources, link/prompt,
\* ticker/sources); `idx` is the position of the job in self.instances (the
\* identity of the execution that built the dict, not a key of the dict).
\* The 'timestamp' key of CrawlerLauncher and StockGuardianLauncher is left out.
ExitResult(i, inst, p) ==
    [idx |-> i, instance |-> inst,
     success |-> (p.returncode = 0),
     stdout |-> p.stdout, stderr |-> p.stderr, returncode |-> p.returncode]

\* The Result dict of the `except subprocess.TimeoutExpired` branch.
TimeoutResult(k, i, inst) ==
    [idx |-> i, instance |-> inst, success |-> FALSE, error |-> TimeoutMessage(k)]

\* The Result dict of the `except Exception as e` branch.
ErrorResultGeneric(i, inst, msg) ==
    [idx |-> i, instance |-> inst, success |-> FALSE, error |-> "Unknown error"]

ErrorResult(i, inst, msg) ==
    [idx |-> i, instance |-> inst, success |-> FALSE, error |-> msg]

\* the default of the base_port parameter of ScraperLauncher and
\* StockGuardianLauncher
BasePort == 9222

\* the dict without keys
EmptyDict == <<>>

\* `key in metadata`
HasKey(m, key) == \E i \in 1..Len(m) : m[i][1] = key

\* `if 'port' not in metadata: metadata['port'] = self.base_port +
\* len(self.instances)`, n being len(self.instances)
WithPort(m, n) ==
    IF HasKey(m, "port") THEN m ELSE Append(m, <<"port", BasePort + n>>)

\* The dict object the caller's `metadata` argument refers to, as it is when
\* the call is made.  The launcher writes into the object it is handed and
\* the instance keeps that object, so the caller's one dict is what the
\* instances built from it hold.
PassedDict(d, insts) ==
    LET earlier == {i \in 1..Len(insts) : insts[i].same_dict}
    IN  IF d.same_dict /\ earlier # {}
        THEN insts[CHOOSE i \in earlier : TRUE].metadata
        ELSE d.metadata[1]

\* `if metadata is None: metadata = {}`
OrEmpty(d, insts) ==
    IF d.metadata = <<>> THEN EmptyDict ELSE PassedDict(d, insts)

\* json.dumps of a dict with integer values
RECURSIVE JsonPairs(_)
JsonPairs(m) ==
    IF m = <<>> THEN ""
    ELSE "\"" \o Head(m)[1] \o "\": " \o ToString(Head(m)[2])
            \o (IF Tail(m) = <<>> THEN "" ELSE ", " \o JsonPairs(Tail(m)))

JsonDumpsDict(m) == "{" \o JsonPairs(m) \o "}"

\* json.dumps of a list of strings
RECURSIVE JsonItems(_)
JsonItems(xs) ==
    IF xs = <<>> THEN ""
    ELSE "\"" \o Head(xs) \o "\""
            \o (IF Tail(xs) = <<>> THEN "" ELSE ", " \o JsonItems(Tail(xs)))

JsonDumpsList(xs) == "[" \o JsonItems(xs) \o "]"

\* The instance add_job / add_instance / add_stock of launcher k builds from
\* descriptor d when self.instances is insts.  None of the three looks at
\* the sources; add_instance and add_stock write the port into the dict they
\* were handed; the constructors store what they are given (`metadata or
\* {}`).  same_dict records that self.metadata is the caller's one dict.
NewInstance(k, d, insts) ==
    CASE k = "crawler" ->
            [label |-> d.label, goal |-> d.goal, sources |-> d.sources,
             metadata |-> OrEmpty(d, insts), same_dict |-> d.same_dict]
      [] k = "scraper" ->
            [label |-> d.label, goal |-> d.goal,
             metadata |-> WithPort(OrEmpty(d, insts), Len(insts)),
             same_dict |-> d.same_dict]
      [] k = "stock" ->
            [label |-> d.label, sources |-> d.sources,
             metadata |-> WithPort(OrEmpty(d, insts), Len(insts)),
             same_dict |-> d.same_dict]

\* `if self.metadata: args.append(json.dumps(self.metadata))`
OptionsArg(inst) ==
    IF inst.metadata = EmptyDict THEN <<>> ELSE <<JsonDumpsDict(inst.metadata)>>

\* to_args of CrawlerInstance, ScraperInstance and StockMonitorInstance
ToArgs(k, inst) ==
    CASE k = "crawler" ->
            <<"node", "stock-guardian.js", inst.label, inst.goal,
              JsonDumpsList(inst.sources)>> \o OptionsArg(inst)
      [] k = "scraper" ->
            <<"node", "index.js", inst.label, inst.goal>> \o OptionsArg(inst)
      [] k = "stock" ->
            <<"node", "stock-guardian.js", inst.label,
              JsonDumpsList(inst.sources)>> \o OptionsArg(inst)

(***************************************************************************)
(* Launchers: operations.                                                  *)
(***************************************************************************)
\* add_job / add_instance / add_stock: append one instance
add_job(d) ==
    /\ lpc \in {"idle", "done"}
    /\ N < MaxBatch
    /\ instances' = Append(instances, NewInstance(kind, d, instances))
    /\ lpc' = "idle"
    /\ li' = 1
    /\ tpc' = [i \in Slots |-> "none"]
    /\ proc' = [i \in Slots |-> NoProc]
    /\ result_queue' = <<>>
    /\ results' = <<>>
    /\ UNCHANGED <<kind, calls_left>>
    /\ UNCHANGED <<svars, gvars>>

run_all_parallel_keeps_queue ==
    /\ lpc \in {"idle", "done"}
    /\ calls_left > 0
    /\ calls_left' = calls_left - 1
    /\ lpc' = "par_start"
    /\ li' = 1
    /\ result_queue' = results
    /\ results' = <<>>
    /\ tpc' = [i \in Slots |-> "none"]
    /\ proc' = [i \in Slots |-> NoProc]
    /\ UNCHANGED <<kind, instances>>
    /\ UNCHANGED <<svars, gvars>>

\* run_all_parallel is called, for the first time or after an earlier call
\* of run_all_parallel or run_all_sequential has returned: fresh queue, empty
\* thread list.  The threads and workers of the earlier call have ended and
\* the list it returned belongs to the caller.
run_all_parallel ==
    /\ lpc \in {"idle", "done"}
    /\ calls_left > 0
    /\ calls_left' = calls_left - 1
    /\ lpc' = "par_start"
    /\ li' = 1
    /\ result_queue' = <<>>
    /\ results' = <<>>
    /\ tpc' = [i \in Slots |-> "none"]
    /\ proc' = [i \in Slots |-> NoProc]
    /\ UNCHANGED <<kind, instances>>
    /\ UNCHANGED <<svars, gvars>>

\* one iteration of `for instance in self.instances: thread.start()`
par_start_thread ==
    /\ lpc = "par_start"
    /\ li <= N
    /\ tpc' = [tpc EXCEPT ![li] = "ready"]
    /\ li' = li + 1
    /\ UNCHANGED <<kind, calls_left, instances, lpc, proc, result_queue, results>>
    /\ UNCHANGED <<svars, gvars>>

\* the start loop is over: go on to the join loop
par_start_done ==
    /\ lpc = "par_start"
    /\ li > N
    /\ lpc' = "par_join"
    /\ li' = 1
    /\ UNCHANGED <<kind, calls_left, instances, tpc, proc, result_queue, results>>
    /\ UNCHANGED <<svars, gvars>>

par_join_thread_returns_at_once ==
    /\ lpc = "par_join"
    /\ li <= N
    /\ li' = li + 1
    /\ UNCHANGED <<kind, calls_left, instances, lpc, tpc, proc, result_queue, results>>
    /\ UNCHANGED <<svars, gvars>>

\* one iteration of `for thread in threads: thread.join()`; join returns once
\* the thread has ended, normally or with an exception
par_join_thread ==
    /\ lpc = "par_join"
    /\ li <= N
    /\ tpc[li] \in {"done", "raised"}
    /\ li' = li + 1
    /\ UNCHANGED <<kind, calls_left, instances, lpc, tpc, proc, result_queue, results>>
    /\ UNCHANGED <<svars, gvars>>

\* `while not result_queue.empty(): results.append(result_queue.get())`
\* and the return: the queue is drained in FIFO order
par_collect ==
    /\ lpc = "par_join"
    /\ li > N
    /\ results' = result_queue
    /\ result_queue' = <<>>
    /\ lpc' = "done"
    /\ UNCHANGED <<kind, calls_left, instances, li, tpc, proc>>
    /\ UNCHANGED <<svars, gvars>>

\* run_all_sequential is called, for the first time or after an earlier call
\* has returned: fresh list, fresh queue
run_all_sequential ==
    /\ lpc \in {"idle", "done"}
    /\ calls_left > 0
    /\ calls_left' = calls_left - 1
    /\ lpc' = "seq_loop"
    /\ li' = 1
    /\ result_queue' = <<>>
    /\ results' = <<>>
    /\ tpc' = [i \in Slots |-> "none"]
    /\ proc' = [i \in Slots |-> NoProc]
    /\ UNCHANGED <<kind, instances>>
    /\ UNCHANGED <<svars, gvars>>

seq_call_without_waiting ==
    /\ lpc = "seq_loop"
    /\ \E i \in 1..N :
          /\ tpc[i] = "none"
          /\ tpc' = [tpc EXCEPT ![i] = "ready"]
    /\ UNCHANGED <<kind, calls_left, instances, lpc, li, proc, result_queue, results>>
    /\ UNCHANGED <<svars, gvars>>

\* `self.run_instance(instance, result_queue)` is entered for the next job
seq_call ==
    /\ lpc = "seq_loop"
    /\ li <= N
    /\ tpc[li] = "none"
    /\ tpc' = [tpc EXCEPT ![li] = "ready"]
    /\ UNCHANGED <<kind, calls_left, instances, lpc, li, proc, result_queue, results>>
    /\ UNCHANGED <<svars, gvars>>

seq_get_same_job_again ==
    /\ lpc = "seq_loop"
    /\ li <= N
    /\ tpc[li] \in {"done", "raised"}
    /\ IF tpc[li] = "raised"
       THEN /\ lpc' = "aborted"
            /\ UNCHANGED <<li, result_queue, results>>
       ELSE /\ result_queue # <<>>
            /\ results' = Append(results, Head(result_queue))
            /\ result_queue' = Tail(result_queue)
            /\ li' = li
            /\ lpc' = lpc
    /\ UNCHANGED <<kind, calls_left, instances, tpc, proc>>
    /\ UNCHANGED <<svars, gvars>>

\* run_instance returned: `results.append(result_queue.get())`.  An exception
\* leaving run_instance would leave run_all_sequential too.
seq_get ==
    /\ lpc = "seq_loop"
    /\ li <= N
    /\ tpc[li] \in {"done", "raised"}
    /\ IF tpc[li] = "raised"
       THEN /\ lpc' = "aborted"
            /\ UNCHANGED <<li, result_queue, results>>
       ELSE /\ result_queue # <<>>
            /\ results' = Append(results, Head(result_queue))
            /\ result_queue' = Tail(result_queue)
            /\ li' = li + 1
            /\ lpc' = lpc
    /\ UNCHANGED <<kind, calls_left, instances, tpc, proc>>
    /\ UNCHANGED <<svars, gvars>>

\* the for-loop of run_all_sequential is over: return results
seq_return ==
    /\ lpc = "seq_loop"
    /\ li > N
    /\ lpc' = "done"
    /\ UNCHANGED <<kind, calls_left, instances, li, tpc, proc, result_queue, results>>
    /\ UNCHANGED <<svars, gvars>>

\* run_instance reaches subprocess.run: the worker process is started and the
\* execution waits for it
run_instance_spawn(i) ==
    /\ tpc[i] = "ready"
    /\ tpc' = [tpc EXCEPT ![i] = "waiting"]
    /\ proc' = [proc EXCEPT ![i] = [state |-> "running", desc |-> FALSE,
                                      args |-> ToArgs(kind, instances[i])]]
    /\ UNCHANGED <<kind, calls_left, instances, lpc, li, result_queue, results>>
    /\ UNCHANGED <<svars, gvars>>

\* (mutant) no `except Exception` branch: the OSError leaves run_instance
run_instance_spawn_error_escapes(i) ==
    /\ tpc[i] = "ready"
    /\ tpc' = [tpc EXCEPT ![i] = "raised"]
    /\ UNCHANGED <<kind, calls_left, instances, lpc, li, proc, result_queue, results>>
    /\ UNCHANGED <<svars, gvars>>

\* subprocess.run raises OSError because the worker cannot be started:
\* the `except Exception as e` branch puts an error Result
run_instance_spawn_error(i) ==
    /\ tpc[i] = "ready"
    /\ \E msg \in SpawnErrors :
          result_queue' = Append(result_queue, ErrorResult(i, instances[i], msg))
    /\ tpc' = [tpc EXCEPT ![i] = "done"]
    /\ UNCHANGED <<kind, calls_left, instances, lpc, li, proc, results>>
    /\ UNCHANGED <<svars, gvars>>

\* the worker starts a process of its own (the browser it drives)
worker_fork(i) ==
    /\ proc[i].state = "running"
    /\ ~proc[i].desc
    /\ proc' = [proc EXCEPT ![i].desc = TRUE]
    /\ UNCHANGED <<kind, calls_left, instances, lpc, li, tpc, result_queue, results>>
    /\ UNCHANGED <<svars, gvars>>

\* the worker exits on its own, before the deadline
worker_exit(i) ==
    /\ proc[i].state = "running"
    /\ \E o \in WorkerOutputs :
          proc' = [proc EXCEPT ![i] =
                      [state |-> "exited", desc |-> proc[i].desc,
                       returncode |-> o.returncode,
                       stdout |-> o.stdout, stderr |-> o.stderr]]
    /\ UNCHANGED <<kind, calls_left, instances, lpc, li, tpc, result_queue, results>>
    /\ UNCHANGED <<svars, gvars>>

\* subprocess.run returns the CompletedProcess: the Result is built and put
run_instance_exit(i) ==
    /\ tpc[i] = "waiting"
    /\ proc[i].state = "exited"
    /\ result_queue' = Append(result_queue, ExitResult(i, instances[i], proc[i]))
    /\ tpc' = [tpc EXCEPT ![i] = "done"]
    /\ UNCHANGED <<kind, calls_left, instances, lpc, li, proc, results>>
    /\ UNCHANGED <<svars, gvars>>

\* (mutant) the TimeoutExpired branch forgets result_queue.put
run_instance_timeout_no_put(i) ==
    /\ tpc[i] = "waiting"
    /\ proc[i].state = "running"
    /\ proc' = [proc EXCEPT ![i].state = "killed"]
    /\ tpc' = [tpc EXCEPT ![i] = "done"]
    /\ UNCHANGED <<kind, calls_left, instances, lpc, li, result_queue, results>>
    /\ UNCHANGED <<svars, gvars>>

\* The deadline passes with the worker still running.  subprocess.run kills
\* the child it started (Popen.kill), waits for that child and raises
\* TimeoutExpired; processes the child started are not signalled.  The
\* `except subprocess.TimeoutExpired` branch puts a timeout Result.
run_instance_timeout(i) ==
    /\ tpc[i] = "waiting"
    /\ proc[i].state = "running"
    /\ proc' = [proc EXCEPT ![i].state = "killed"]
    /\ result_queue' = Append(result_queue, TimeoutResult(kind, i, instances[i]))
    /\ tpc' = [tpc EXCEPT ![i] = "done"]
    /\ UNCHANGED <<kind, calls_left, instances, lpc, li, results>>
    /\ UNCHANGED <<svars, gvars>>

LNext ==
    \/ \E d \in Descriptors : add_job(d)
    \/ run_all_parallel
    \/ par_start_thread
    \/ par_start_done
    \/ par_join_thread
    \/ par_collect
    \/ run_all_sequential
    \/ seq_call
    \/ seq_get
    \/ seq_return
    \/ \E i \in Slots : run_instance_spawn(i)
    \/ \E i \in Slots : run_instance_spawn_error(i)
    \/ \E i \in Slots : worker_fork(i)
    \/ \E i \in Slots : worker_exit(i)
    \/ \E i \in Slots : run_instance_exit(i)
    \/ \E i \in Slots : run_instance_timeout(i)

(***************************************************************************)
(* Job Service (server.py).                                                *)
(***************************************************************************)
\* the job ids uuid.uuid4() can return in one behaviour, in the order returned
Ids == 1..MaxJobs

\* Python's None, and a value that is present
None == <<>>
Some(v) == <<v>>

\* The threads the development server (app.run) handles requests on: one
\* per request in flight.  Two requests in flight are what a race between
\* two handlers takes; which thread serves a request is immaterial, so an
\* arriving request is given the first thread that is free.
Handlers == {"h1", "h2"}

\* a handler thread between two requests
Idle == [op |-> "idle"]

\* an HTTP response: the route answered (op), what was asked of it (req: the
\* body of a POST, the job id of a GET or DELETE), the status code and the
\* JSON body
Response(op, req, code, body) ==
    [op |-> op, req |-> req, code |-> code, body |-> body]

\* the step just taken sent no response
NoResponse == Response("none", <<>>, 0, <<>>)

(***************************************************************************)
(* Job Service: pure helpers.                                              *)
(***************************************************************************)
\* The JSON bodies POST /crawl is sent.  A key that is absent from the body
\* is None here (data.get returns None); `sources` is tagged with its JSON
\* type because the handler tests isinstance(sources, list).
Requests ==
    { [ticker |-> Some("AAPL"), topic |-> Some("Apple Inc"), goal |-> Some("risks"),
       sources |-> Some([type |-> "array", items |-> <<"https://a.test">>]),
       metadata |-> Some("maxStepsPerSource")],
      [ticker |-> Some("MSFT"), topic |-> Some("Microsoft"), goal |-> Some("news"),
       sources |-> Some([type |-> "array", items |-> <<"https://a.test", "https://b.test">>]),
       metadata |-> None],
      [ticker |-> None, topic |-> Some("Apple Inc"), goal |-> Some("risks"),
       sources |-> Some([type |-> "array", items |-> <<"https://a.test">>]),
       metadata |-> None],
      [ticker |-> Some("AAPL"), topic |-> Some(""), goal |-> Some("risks"),
       sources |-> Some([type |-> "array", items |-> <<"https://a.test">>]),
       metadata |-> None],
      [ticker |-> Some("AAPL"), topic |-> Some("Apple Inc"), goal |-> None,
       sources |-> Some([type |-> "array", items |-> <<"https://a.test">>]),
       metadata |-> None],
      [ticker |-> Some("AAPL"), topic |-> Some("Apple Inc"), goal |-> Some("risks"),
       sources |-> Some([type |-> "array", items |-> <<>>]),
       metadata |-> None],
      [ticker |-> Some("AAPL"), topic |-> Some("Apple Inc"), goal |-> Some("risks"),
       sources |-> Some([type |-> "string", items |-> <<"https://a.test">>]),
       metadata |-> None],
      [ticker |-> Some("AAPL"), topic |-> Some("Apple Inc"), goal |-> Some("risks"),
       sources |-> None,
       metadata |-> None],
      [ticker |-> None, topic |-> None, goal |-> None,
       sources |-> None,
       metadata |-> None] }

\* `not data`: the body is JSON null or an object without keys
NoBody(data) == \A k \in DOMAIN data : data[k] = None

\* `not x` for an optional string: absent or empty
NotStr(x) == x = None \/ x[1] = ""

\* `not sources or not isinstance(sources, list)`
NotSources(x) == x = None \/ x[1].items = <<>> \/ x[1].type # "array"

ValidatedTopicUnchecked(data) ==
    /\ ~NotStr(data.ticker)
    /\ ~NotStr(data.goal)
    /\ ~NotSources(data.sources)

\* the chain of early returns of start_crawl: the request passes all of them
Validated(data) ==
    /\ ~NotStr(data.ticker)
    /\ ~NotStr(data.topic)
    /\ ~NotStr(data.goal)
    /\ ~NotSources(data.sources)

\* the message of the first early return of start_crawl a request runs into
ValidationError(data) ==
    IF NoBody(data) THEN "Request body required"
    ELSE IF NotStr(data.ticker) THEN "ticker is required"
    ELSE IF NotStr(data.topic) THEN "topic is required"
    ELSE IF NotStr(data.goal) THEN "goal is required"
    ELSE "sources must be a non-empty array"

\* data.get('metadata', {}): the submitted metadata, {} when the body has none
EmptyMetadata == "{}"
MetadataOf(data) == IF data.metadata = None THEN EmptyMetadata ELSE data.metadata[1]

NewJobGoalFromTopic(job_id, data, now) ==
    [job_id |-> job_id,
     ticker |-> data.ticker[1], topic |-> data.topic[1], goal |-> data.topic[1],
     sources |-> data.sources[1].items,
     metadata |-> MetadataOf(data),
     status |-> "queued",
     created_at |-> Some(now), started_at |-> None, completed_at |-> None,
     result |-> None, error |-> None]

\* json.dumps of the metadata of a submission: {} or the object with the
\* one option the body carried
JsonDumpsMetadata(m) ==
    IF m = EmptyMetadata THEN "{}" ELSE "{\"" \o m \o "\": 20}"

\* before the thread is started and after subprocess.run was called
NoCmd == <<>>

\* a string argument of the thread; start_crawl has returned 400 for a body
\* in which it is absent, so the thread is never handed None
ArgOf(x) == IF x = None THEN "" ELSE x[1]

\* run_crawler, lines 23-35: the command line of the worker
Cmd(data) ==
    <<"node", "stock-guardian.js",
      ArgOf(data.ticker), ArgOf(data.topic), ArgOf(data.goal),
      JsonDumpsList(data.sources[1].items),
      JsonDumpsMetadata(MetadataOf(data))>>

\* the job dict start_crawl inserts
NewJob(job_id, data, now) ==
    [job_id |-> job_id,
     ticker |-> data.ticker[1], topic |-> data.topic[1], goal |-> data.goal[1],
     sources |-> data.sources[1].items,
     metadata |-> MetadataOf(data),
     status |-> "queued",
     created_at |-> Some(now), started_at |-> None, completed_at |-> None,
     result |-> None, error |-> None]

\* str.strip() on the captured standard output: leading and trailing
\* whitespace tokens are removed
RECURSIVE LStrip(_)
LStrip(s) == IF s # <<>> /\ Head(s) = "ws" THEN LStrip(Tail(s)) ELSE s

RECURSIVE RStrip(_)
RStrip(s) ==
    IF s # <<>> /\ s[Len(s)] = "ws" THEN RStrip(SubSeq(s, 1, Len(s) - 1)) ELSE s

Strip(s) == RStrip(LStrip(s))

\* the standard-output tokens that are one complete JSON document
JsonTexts == {"{\"risk\": 1}"}

\* json.loads: the text must be exactly one JSON document, anything else
\* (empty text, diagnostic text, trailing data) raises JSONDecodeError
JsonLoads(s) ==
    IF Len(s) = 1 /\ s[1] \in JsonTexts
    THEN [ok |-> TRUE, value |-> [risk |-> 1]]
    ELSE [ok |-> FALSE]

ParseErrorResultWithoutStreams(p) ==
    [error |-> "Failed to parse result"]

\* the dict stored as result when json.loads raises JSONDecodeError
ParseErrorResult(p) ==
    [error |-> "Failed to parse result", stdout |-> p.stdout, stderr |-> p.stderr]

\* str(KeyError(job_id)): what run_crawler's handler sees when its job is gone
KeyErrorText == "KeyError: job_id"

\* the job dict after `jobs[job_id][key] = value`
SetKey(job, key, value) == (key :> value) @@ job

(***************************************************************************)
(* Job Service: operations.                                                *)
(***************************************************************************)
\* POST /crawl with a body that passes validation: the job is inserted as
\* queued and the run_crawler thread is started.
start_crawl(data) ==
    /\ next_id <= job_limit
    /\ Validated(data)
    /\ jobs' = (next_id :> NewJob(next_id, data, clock)) @@ jobs
    /\ next_id' = next_id + 1
    /\ UNCHANGED clock
    /\ rc_pc' = [rc_pc EXCEPT ![next_id] = "l38"]
    /\ threads' = [threads EXCEPT ![next_id] = @ + 1]
    /\ rc_cmd' = [rc_cmd EXCEPT ![next_id] = Cmd(data)]
    /\ UNCHANGED <<rc_exc, wproc, spawns>>
    /\ resp' = NoResponse
    /\ UNCHANGED <<gvars, lvars, cvars>>

\* DELETE /jobs/<job_id> for an id that is in the registry (any other id is
\* answered 404 and changes nothing): `del jobs[job_id]`.
delete_job(id) ==
    /\ id \in DOMAIN jobs
    /\ jobs' = [j \in DOMAIN jobs \ {id} |-> jobs[j]]
    /\ UNCHANGED <<next_id, clock, rc_pc, rc_exc, wproc>>
    /\ resp' = NoResponse
    /\ UNCHANGED <<gvars, lvars, cvars, tvars>>

rc_store_setdefault(id, at, to, key, value) ==
    /\ rc_pc[id] = at
    /\ jobs' = IF id \in DOMAIN jobs
                 THEN [jobs EXCEPT ![id] = SetKey(@, key, value)]
                 ELSE (id :> (key :> value)) @@ jobs
    /\ rc_pc' = [rc_pc EXCEPT ![id] = to]
    /\ UNCHANGED rc_exc

\* One statement `jobs[job_id][key] = value` of run_crawler's try block at
\* line `at`: it goes on to line `to`, or to the handler (line 66) with a
\* KeyError when the job is no longer in the registry.
rc_store(id, at, to, key, value) ==
    /\ rc_pc[id] = at
    /\ IF id \in DOMAIN jobs
       THEN /\ jobs' = [jobs EXCEPT ![id] = SetKey(@, key, value)]
            /\ rc_pc' = [rc_pc EXCEPT ![id] = to]
            /\ UNCHANGED rc_exc
       ELSE /\ rc_pc' = [rc_pc EXCEPT ![id] = "l66"]
            /\ rc_exc' = [rc_exc EXCEPT ![id] = KeyErrorText]
            /\ UNCHANGED jobs

\* One statement `jobs[job_id][key] = value` of run_crawler's except block:
\* a KeyError here is not caught and ends the thread.
rc_store_handler(id, at, to, key, value) ==
    /\ rc_pc[id] = at
    /\ IF id \in DOMAIN jobs
       THEN /\ jobs' = [jobs EXCEPT ![id] = SetKey(@, key, value)]
            /\ rc_pc' = [rc_pc EXCEPT ![id] = to]
       ELSE /\ rc_pc' = [rc_pc EXCEPT ![id] = "crashed"]
            /\ UNCHANGED jobs
    /\ UNCHANGED rc_exc

rc_l38_marks_nothing(id) ==
    /\ rc_pc[id] = "l38"
    /\ rc_pc' = [rc_pc EXCEPT ![id] = "l39"]
    /\ UNCHANGED <<jobs, rc_exc>>
    /\ UNCHANGED <<next_id, clock, wproc>>
    /\ resp' = NoResponse
    /\ UNCHANGED <<gvars, lvars, cvars, tvars>>

\* line 38: jobs[job_id]['status'] = 'running'
rc_l38(id) ==
    /\ rc_store(id, "l38", "l39", "status", "running")
    /\ UNCHANGED <<next_id, clock, wproc>>
    /\ resp' = NoResponse
    /\ UNCHANGED <<gvars, lvars, cvars, tvars>>

rc_l39_stamps_created_at(id) ==
    /\ rc_store(id, "l39", "l42", "created_at", Some(clock))
    /\ UNCHANGED <<next_id, clock, wproc>>
    /\ resp' = NoResponse
    /\ UNCHANGED <<gvars, lvars, cvars, tvars>>

\* line 39: jobs[job_id]['started_at'] = datetime.utcnow().isoformat()
rc_l39(id) ==
    /\ rc_store(id, "l39", "l42", "started_at", Some(clock))
    /\ UNCHANGED <<next_id, clock, wproc>>
    /\ resp' = NoResponse
    /\ UNCHANGED <<gvars, lvars, cvars, tvars>>

rc_l42_spawn_one_at_a_time(id) ==
    /\ rc_pc[id] = "l42"
    /\ \A other \in Ids : wproc[other].state # "running"
    /\ rc_pc' = [rc_pc EXCEPT ![id] = "wait"]
    /\ wproc' = [wproc EXCEPT ![id] = [state |-> "running", desc |-> FALSE,
                                        args |-> rc_cmd[id]]]
    /\ spawns' = [spawns EXCEPT ![id] = @ + 1]
    /\ rc_cmd' = [rc_cmd EXCEPT ![id] = NoCmd]
    /\ UNCHANGED <<jobs, next_id, clock, rc_exc>>
    /\ resp' = NoResponse
    /\ UNCHANGED <<gvars, lvars, cvars, threads>>

\* line 42: subprocess.run starts the worker and waits for it, with no timeout
rc_l42_spawn(id) ==
    /\ rc_pc[id] = "l42"
    /\ rc_pc' = [rc_pc EXCEPT ![id] = "wait"]
    /\ wproc' = [wproc EXCEPT ![id] = [state |-> "running", desc |-> FALSE,
                                        args |-> rc_cmd[id]]]
    /\ spawns' = [spawns EXCEPT ![id] = @ + 1]
    /\ rc_cmd' = [rc_cmd EXCEPT ![id] = NoCmd]
    /\ UNCHANGED <<jobs, next_id, clock, rc_exc>>
    /\ resp' = NoResponse
    /\ UNCHANGED <<gvars, lvars, cvars, threads>>

\* line 42: subprocess.run raises OSError, the worker cannot be started
rc_l42_spawn_error(id) ==
    /\ rc_pc[id] = "l42"
    /\ rc_pc' = [rc_pc EXCEPT ![id] = "l66"]
    /\ \E msg \in SpawnErrors : rc_exc' = [rc_exc EXCEPT ![id] = msg]
    /\ UNCHANGED <<jobs, next_id, clock, wproc>>
    /\ resp' = NoResponse
    /\ rc_cmd' = [rc_cmd EXCEPT ![id] = NoCmd]
    /\ UNCHANGED <<gvars, lvars, cvars, threads, spawns>>

\* the worker of a service job exits on its own; nothing makes it do so
svc_worker_exit(id) ==
    /\ wproc[id].state = "running"
    /\ \E o \in WorkerOutputs :
          wproc' = [wproc EXCEPT ![id] =
                       [state |-> "exited", desc |-> wproc[id].desc,
                        returncode |-> o.returncode,
                        stdout |-> o.stdout, stderr |-> o.stderr]]
    /\ UNCHANGED <<jobs, next_id, clock, rc_pc, rc_exc>>
    /\ resp' = NoResponse
    /\ UNCHANGED <<gvars, lvars, cvars, tvars>>

rc_l51_retries(id) ==
    /\ rc_pc[id] = "wait"
    /\ wproc[id].state = "exited"
    /\ rc_pc' = [rc_pc EXCEPT ![id] =
                    IF JsonLoads(Strip(wproc[id].stdout)).ok THEN "l52" ELSE "l42"]
    /\ UNCHANGED <<jobs, next_id, clock, rc_exc, wproc>>
    /\ resp' = NoResponse
    /\ UNCHANGED <<gvars, lvars, cvars, tvars>>

\* line 51: subprocess.run has returned; json.loads(result.stdout.strip())
rc_l51(id) ==
    /\ rc_pc[id] = "wait"
    /\ wproc[id].state = "exited"
    /\ rc_pc' = [rc_pc EXCEPT ![id] =
                    IF JsonLoads(Strip(wproc[id].stdout)).ok THEN "l52" ELSE "l55"]
    /\ UNCHANGED <<jobs, next_id, clock, rc_exc, wproc>>
    /\ resp' = NoResponse
    /\ UNCHANGED <<gvars, lvars, cvars, tvars>>

\* line 52: jobs[job_id]['result'] = result_data
rc_l52(id) ==
    /\ rc_store(id, "l52", "l53", "result",
                Some(JsonLoads(Strip(wproc[id].stdout)).value))
    /\ UNCHANGED <<next_id, clock, wproc>>
    /\ resp' = NoResponse
    /\ UNCHANGED <<gvars, lvars, cvars, tvars>>

\* (mutant) an exception after the status was written: the handler runs
rc_l53_then_handler(id) ==
    /\ rc_store(id, "l53", "l66", "status", "completed")
    /\ UNCHANGED <<next_id, clock, wproc>>
    /\ resp' = NoResponse
    /\ UNCHANGED <<gvars, lvars, cvars, tvars>>

\* line 53: jobs[job_id]['status'] = 'completed'
rc_l53(id) ==
    /\ rc_store(id, "l53", "l62", "status", "completed")
    /\ UNCHANGED <<next_id, clock, wproc>>
    /\ resp' = NoResponse
    /\ UNCHANGED <<gvars, lvars, cvars, tvars>>

\* lines 55-59: jobs[job_id]['result'] = {'error': ..., 'stdout': ..., 'stderr': ...}
rc_l55(id) ==
    /\ rc_store(id, "l55", "l60", "result", Some(ParseErrorResult(wproc[id])))
    /\ UNCHANGED <<next_id, clock, wproc>>
    /\ resp' = NoResponse
    /\ UNCHANGED <<gvars, lvars, cvars, tvars>>

\* line 60: jobs[job_id]['status'] = 'failed'
rc_l60(id) ==
    /\ rc_store(id, "l60", "l62", "status", "failed")
    /\ UNCHANGED <<next_id, clock, wproc>>
    /\ resp' = NoResponse
    /\ UNCHANGED <<gvars, lvars, cvars, tvars>>

\* line 62: jobs[job_id]['completed_at'] = datetime.utcnow().isoformat()
rc_l62(id) ==
    /\ rc_store(id, "l62", "l63", "completed_at", Some(clock))
    /\ UNCHANGED <<next_id, clock, wproc>>
    /\ resp' = NoResponse
    /\ UNCHANGED <<gvars, lvars, cvars, tvars>>

rc_l63_evicts(id) ==
    /\ rc_pc[id] = "l63"
    /\ jobs' = [j \in DOMAIN jobs \ {id} |-> jobs[j]]
    /\ rc_pc' = [rc_pc EXCEPT ![id] = "done"]
    /\ UNCHANGED rc_exc
    /\ UNCHANGED <<next_id, clock, wproc>>
    /\ resp' = NoResponse
    /\ UNCHANGED <<gvars, lvars, cvars, tvars>>

\* line 63: jobs[job_id]['return_code'] = result.returncode
rc_l63(id) ==
    /\ rc_store(id, "l63", "done", "return_code", wproc[id].returncode)
    /\ UNCHANGED <<next_id, clock, wproc>>
    /\ resp' = NoResponse
    /\ UNCHANGED <<gvars, lvars, cvars, tvars>>

\* line 66: jobs[job_id]['status'] = 'failed'
rc_l66(id) ==
    /\ rc_store_handler(id, "l66", "l67", "status", "failed")
    /\ UNCHANGED <<next_id, clock, wproc>>
    /\ resp' = NoResponse
    /\ UNCHANGED <<gvars, lvars, cvars, tvars>>

\* line 67: jobs[job_id]['error'] = str(e)
rc_l67(id) ==
    /\ rc_store_handler(id, "l67", "l68", "error", Some(rc_exc[id]))
    /\ UNCHANGED <<next_id, clock, wproc>>
    /\ resp' = NoResponse
    /\ UNCHANGED <<gvars, lvars, cvars, tvars>>

\* line 68: jobs[job_id]['completed_at'] = datetime.utcnow().isoformat()
rc_l68(id) ==
    /\ rc_store_handler(id, "l68", "done", "completed_at", Some(clock))
    /\ UNCHANGED <<next_id, clock, wproc>>
    /\ resp' = NoResponse
    /\ UNCHANGED <<gvars, lvars, cvars, tvars>>

\* every step of the run_crawler thread of one job
run_crawler(id) ==
    \/ rc_l38(id)
    \/ rc_l39(id)
    \/ rc_l42_spawn(id)
    \/ rc_l42_spawn_error(id)
    \/ rc_l51(id)
    \/ rc_l52(id)
    \/ rc_l53(id)
    \/ rc_l55(id)
    \/ rc_l60(id)
    \/ rc_l62(id)
    \/ rc_l63(id)
    \/ rc_l66(id)
    \/ rc_l67(id)
    \/ rc_l68(id)

SNext ==
    \/ \E data \in Requests : start_crawl(data)
    \/ \E id \in Ids : delete_job(id)
    \/ \E id \in Ids : svc_worker_exit(id)
    \/ \E id \in Ids : run_crawler(id)

(***************************************************************************)
(* Job Service: the request handlers, statement by statement.              *)
(*                                                                         *)
(* app.run serves every request on a thread of its own and server.py has   *)
(* no lock, so a handler can be preempted between two statements that      *)
(* touch `jobs`.  A handler that touches `jobs` twice is two steps here; a  *)
(* KeyError that escapes a handler is answered by Flask with a 500.        *)
(***************************************************************************)
\* the thread an arriving request is handled on
Free(h) ==
    /\ hreq[h] = Idle
    /\ h = "h2" => hreq["h1"] # Idle

\* the 500 Flask answers when a handler raised
ServerError(op, req) == Response(op, req, 500, [error |-> KeyErrorText])

\* the 404 of get_job and delete_job
NotFound(op, id) == Response(op, id, 404, [error |-> "Job not found"])

\* the client of job id has its 202: the POST that created the job returned
Announced(id) ==
    /\ submitted[id] # None
    /\ \A h \in Handlers : ~(hreq[h].op = "post" /\ hreq[h].id = id)

\* start_crawl, lines 108-157: the early returns; otherwise the job is
\* inserted and its thread started
start_crawl_l108(h, data) ==
    /\ Free(h)
    /\ IF ~Validated(data)
         THEN /\ resp' = Response("POST", data, 400,
                                  [error |-> ValidationError(data)])
              /\ UNCHANGED <<rvars, hreq, submitted, tvars>>
         ELSE /\ next_id <= job_limit
              /\ jobs' = (next_id :> NewJob(next_id, data, clock)) @@ jobs
              /\ next_id' = next_id + 1
              /\ rc_pc' = [rc_pc EXCEPT ![next_id] = "l38"]
              /\ hreq' = [hreq EXCEPT ![h] = [op |-> "post", id |-> next_id]]
              /\ submitted' = [submitted EXCEPT ![next_id] = Some(data)]
              /\ threads' = [threads EXCEPT ![next_id] = @ + 1]
              /\ rc_cmd' = [rc_cmd EXCEPT ![next_id] = Cmd(data)]
              /\ resp' = NoResponse
              /\ UNCHANGED <<clock, rc_exc, wproc, spawns>>
    /\ UNCHANGED <<gvars, lvars, job_limit>>

start_crawl_l159_joins_thread(h) ==
    /\ hreq[h].op = "post"
    /\ rc_pc[hreq[h].id] \in {"done", "crashed"}
    /\ LET id == hreq[h].id
           data == submitted[id][1]
       IN  resp' = IF id \in DOMAIN jobs
                     THEN Response("POST", data, 202,
                                   [job_id |-> id, status |-> "queued",
                                    ticker |-> data.ticker[1],
                                    topic |-> data.topic[1],
                                    goal |-> data.goal[1],
                                    sources |-> data.sources[1].items,
                                    created_at |-> jobs[id].created_at])
                     ELSE ServerError("POST", data)
    /\ hreq' = [hreq EXCEPT ![h] = Idle]
    /\ UNCHANGED <<rvars, job_limit, submitted>>
    /\ UNCHANGED <<gvars, lvars, tvars>>

\* start_crawl, lines 159-167: the 202 is built, reading
\* jobs[job_id]['created_at'] again
start_crawl_l159(h) ==
    /\ hreq[h].op = "post"
    /\ LET id == hreq[h].id
           data == submitted[id][1]
       IN  resp' = IF id \in DOMAIN jobs
                     THEN Response("POST", data, 202,
                                   [job_id |-> id, status |-> "queued",
                                    ticker |-> data.ticker[1],
                                    topic |-> data.topic[1],
                                    goal |-> data.goal[1],
                                    sources |-> data.sources[1].items,
                                    created_at |-> jobs[id].created_at])
                     ELSE ServerError("POST", data)
    /\ hreq' = [hreq EXCEPT ![h] = Idle]
    /\ UNCHANGED <<rvars, job_limit, submitted>>
    /\ UNCHANGED <<gvars, lvars, tvars>>

\* health, lines 71-78: answers from constants and the clock alone
health(h) ==
    /\ Free(h)
    /\ resp' = Response("HEALTH", <<>>, 200,
                        [status |-> "healthy", service |-> "Web Crawler AI",
                         timestamp |-> clock])
    /\ UNCHANGED <<rvars, cvars>>
    /\ UNCHANGED <<gvars, lvars, tvars>>

\* get_job, lines 186-187: `if job_id not in jobs`.  after_post records
\* that the request arrived when the POST that created the job had returned.
get_job_l186(h, id) ==
    /\ Free(h)
    /\ IF id \notin DOMAIN jobs
         THEN /\ resp' = NotFound("GET", id)
              /\ UNCHANGED hreq
         ELSE /\ hreq' = [hreq EXCEPT
                            ![h] = [op |-> "get", id |-> id,
                                    after_post |-> Announced(id)]]
              /\ resp' = NoResponse
    /\ UNCHANGED <<rvars, job_limit, submitted>>
    /\ UNCHANGED <<gvars, lvars, tvars>>

\* get_job, line 189: `return jsonify(jobs[job_id])`
get_job_l189(h) ==
    /\ hreq[h].op = "get"
    /\ LET id == hreq[h].id
       IN  resp' = IF id \in DOMAIN jobs
                     THEN Response("GET", id, 200, jobs[id])
                     ELSE ServerError("GET", id)
    /\ hreq' = [hreq EXCEPT ![h] = Idle]
    /\ UNCHANGED <<rvars, job_limit, submitted>>
    /\ UNCHANGED <<gvars, lvars, tvars>>

\* list(jobs.values()): the entries in insertion order, which is the order
\* of the ids; an entry is written as its job_id
RECURSIVE ValuesFrom(_, _)
ValuesFrom(d, id) ==
    IF id > MaxJobs THEN <<>>
    ELSE (IF id \in DOMAIN d THEN <<d[id].job_id>> ELSE <<>>)
             \o ValuesFrom(d, id + 1)

Values(d) == ValuesFrom(d, 1)

\* list_jobs, line 203: `'jobs': list(jobs.values())`
list_jobs_l203(h) ==
    /\ Free(h)
    /\ hreq' = [hreq EXCEPT ![h] = [op |-> "list", values |-> Values(jobs)]]
    /\ resp' = NoResponse
    /\ UNCHANGED <<rvars, job_limit, submitted>>
    /\ UNCHANGED <<gvars, lvars, tvars>>

\* list_jobs, line 204: `'count': len(jobs)`, and the response
list_jobs_l204(h) ==
    /\ hreq[h].op = "list"
    /\ resp' = Response("LIST", <<>>, 200,
                        [jobs |-> hreq[h].values,
                         count |-> Cardinality(DOMAIN jobs)])
    /\ hreq' = [hreq EXCEPT ![h] = Idle]
    /\ UNCHANGED <<rvars, job_limit, submitted>>
    /\ UNCHANGED <<gvars, lvars, tvars>>

\* delete_job, lines 211-212: `if job_id not in jobs`
delete_job_l211(h, id) ==
    /\ Free(h)
    /\ IF id \notin DOMAIN jobs
         THEN /\ resp' = NotFound("DELETE", id)
              /\ UNCHANGED hreq
         ELSE /\ hreq' = [hreq EXCEPT ![h] = [op |-> "delete", id |-> id]]
              /\ resp' = NoResponse
    /\ UNCHANGED <<rvars, job_limit, submitted>>
    /\ UNCHANGED <<gvars, lvars, tvars>>

\* delete_job, lines 214-215: `del jobs[job_id]` and the 200
delete_job_l214(h) ==
    /\ hreq[h].op = "delete"
    /\ LET id == hreq[h].id
       IN  IF id \in DOMAIN jobs
             THEN /\ jobs' = [j \in DOMAIN jobs \ {id} |-> jobs[j]]
                  /\ resp' = Response("DELETE", id, 200,
                                      [message |-> "deleted", job_id |-> id])
             ELSE /\ resp' = ServerError("DELETE", id)
                  /\ UNCHANGED jobs
    /\ hreq' = [hreq EXCEPT ![h] = Idle]
    /\ UNCHANGED <<next_id, clock, rc_pc, rc_exc, wproc, job_limit, submitted>>
    /\ UNCHANGED <<gvars, lvars, tvars>>

\* the server with its handlers taken statement by statement
HNext ==
    \/ \E h \in Handlers : health(h)
    \/ \E h \in Handlers, data \in Requests : start_crawl_l108(h, data)
    \/ \E h \in Handlers : start_crawl_l159(h)
    \/ \E h \in Handlers, id \in Ids : get_job_l186(h, id)
    \/ \E h \in Handlers : get_job_l189(h)
    \/ \E h \in Handlers : list_jobs_l203(h)
    \/ \E h \in Handlers : list_jobs_l204(h)
    \/ \E h \in Handlers, id \in Ids : delete_job_l211(h, id)
    \/ \E h \in Handlers : delete_job_l214(h)
    \/ \E id \in Ids : svc_worker_exit(id)
    \/ \E id \in Ids : run_crawler(id)

\* datetime.utcnow() as time passes: later readings are never smaller
tick ==
    /\ clock < MaxClock
    /\ clock' = clock + 1
    /\ UNCHANGED <<jobs, next_id, rc_pc, rc_exc, wproc>>
    /\ resp' = NoResponse
    /\ UNCHANGED <<gvars, lvars, cvars, tvars>>

\* the Job Service while time passes
TNext ==
    \/ \E data \in Requests : start_crawl(data)
    \/ \E id \in Ids : delete_job(id)
    \/ \E id \in Ids : svc_worker_exit(id)
    \/ \E id \in Ids : run_crawler(id)
    \/ tick

\* The server with one client that waits for each response before it sends
\* its next request: one handler thread at a time, next to the run_crawler
\* threads.
ClientNext ==
    \/ health("h1")
    \/ \E data \in Requests : start_crawl_l108("h1", data)
    \/ start_crawl_l159("h1")
    \/ \E id \in Ids : get_job_l186("h1", id)
    \/ get_job_l189("h1")
    \/ list_jobs_l203("h1")
    \/ list_jobs_l204("h1")
    \/ \E id \in Ids : delete_job_l211("h1", id)
    \/ delete_job_l214("h1")
    \/ \E id \in Ids : svc_worker_exit(id)
    \/ \E id \in Ids : run_crawler(id)

(***************************************************************************)
(* The news fetcher: main of src/global_news_fetcher/fetch_news.py, run    *)
(* again and again by fetch_news_periodically of src/flask_server.py.      *)
(***************************************************************************)
\* An article is modelled by its "uuid" entry alone: <<>> when
\* article.get("uuid") is None or empty, <<u>> otherwise.  Scraping the text,
\* deleting "similar" and adding ticker_info (lines 43-59) change other entries.
Uuids == {"u1", "u2", "u3"}

ArticleUuids == {<<>>} \cup { <<u>> : u \in Uuids }

\* the lists of articles of at most n entries
RECURSIVE ArticleLists(_)
ArticleLists(n) ==
    IF n = 0
    THEN { <<>> }
    ELSE LET shorter == ArticleLists(n - 1)
         IN  shorter \cup { Append(l, [uuid |-> u]) : l \in shorter, u \in ArticleUuids }

\* What response.json() gives: a dict with a "data" list, a dict without
\* "data", or a value that is not a dict.
ApiResponses ==
    { [shape |-> "articles", data |-> l] : l \in ArticleLists(MaxFetched) }
        \cup { [shape |-> "no_data", data |-> <<>>], [shape |-> "not_dict", data |-> <<>>] }

\* news_articles.json does not exist
NoFile == [exists |-> FALSE, shape |-> "none", data |-> <<>>]

\* news_articles.json after json.dump of a value of the given shape
FileOf(shape, data) == [exists |-> TRUE, shape |-> shape, data |-> data]

\* lines 64-76: the uuids of the articles already in the file
existing_uuids ==
    IF news_file.exists /\ news_file.shape = "articles"
    THEN { news_file.data[i].uuid : i \in 1..Len(news_file.data) } \ {<<>>}
    ELSE {}

\* line 80: the articles of the response whose uuid is not in the file
RECURSIVE new_articles(_, _)
new_articles(data, existing) ==
    IF data = <<>>
    THEN <<>>
    ELSE IF Head(data).uuid \in existing
         THEN new_articles(Tail(data), existing)
         ELSE <<Head(data)>> \o new_articles(Tail(data), existing)

\* line 81: existing_data.get("data", [])
existing_articles ==
    IF news_file.exists /\ news_file.shape = "articles" THEN news_file.data ELSE <<>>

\* One run of main that reaches line 61.  A file that holds a value which is
\* not a dict makes line 81 raise AttributeError when the response has "data";
\* fetch_news_periodically catches it and the file stays as it is.
fetch_news_main(r) ==
    /\ fetch_runs < MaxRuns
    /\ fetch_runs' = fetch_runs + 1
    /\ news_file' =
           IF r.shape = "articles"
           THEN IF news_file.exists /\ news_file.shape = "not_dict"
                THEN news_file
                ELSE FileOf("articles",
                            existing_articles \o new_articles(r.data, existing_uuids))
           ELSE FileOf(r.shape, <<>>)
    /\ UNCHANGED <<lvars, svars, bvars>>

\* One run of main that raises before line 61 (no NEWS_API_KEY, requests.get
\* or raise_for_status fails); fetch_news_periodically catches the exception.
fetch_news_error ==
    /\ fetch_runs < MaxRuns
    /\ fetch_runs' = fetch_runs + 1
    /\ UNCHANGED <<news_file, lvars, svars, bvars>>

\* the body of the loop of fetch_news_periodically
fetch_news_periodically ==
    \/ \E r \in ApiResponses : fetch_news_main(r)
    \/ fetch_news_error

(***************************************************************************)
(* The brief generator: generate_briefs_for_articles of                    *)
(* src/global_news_fetcher/generate_analysis_briefs.py.                    *)
(***************************************************************************)
\* ticker_info["expanded_tickers"] of an article
TickerLists == { <<>>, <<"AAPL">>, <<"AAPL", "MSFT">> }

\* the lists of unmarked articles of at most n entries
RECURSIVE ArticlesToBrief(_)
ArticlesToBrief(n) ==
    IF n = 0
    THEN { <<>> }
    ELSE LET shorter == ArticlesToBrief(n - 1)
         IN  shorter \cup { Append(l, [tickers |-> t, analysis_briefs_generated |-> FALSE]) :
                            l \in shorter, t \in TickerLists }

\* What lines 221-241 can do for one ticker:
\*   brief_parse_error    generate_brief raises json.JSONDecodeError
\*   brief_error          generate_brief raises another exception
\*   brief_not_dict       the brief is appended, build_crawl_payload raises
\*   dispatched_ok        requests.post returns a response that is ok
\*   dispatch_http_error  requests.post returns a response that is not ok
\*   dispatch_unreachable requests.post raises RequestException
TickerOutcomes ==
    { "brief_parse_error", "brief_error", "brief_not_dict",
      "dispatched_ok", "dispatch_http_error", "dispatch_unreachable" }

\* the outcomes after which line 229 has appended a brief entry
BriefAppended == TickerOutcomes \ {"brief_parse_error", "brief_error"}

\* dispatch_brief_to_crawler catches RequestException and only prints a
\* response that is not ok: it returns normally in all three cases, and
\* line 235 is reached
DispatchReturned == {"dispatched_ok", "dispatch_http_error", "dispatch_unreachable"}

\* the step just taken processed no article
NoEvent == [article |-> 0, skipped |-> FALSE, outcomes |-> <<>>]

\* the brief entries lines 223-229 append for article i
RECURSIVE NewBriefs(_, _, _)
NewBriefs(i, tickers, outcomes) ==
    IF tickers = <<>>
    THEN <<>>
    ELSE (IF Head(outcomes) \in BriefAppended THEN << <<i, Head(tickers)>> >> ELSE <<>>)
             \o NewBriefs(i, Tail(tickers), Tail(outcomes))

\* lines 183-189: the call; an empty list returns [] at once
generate_briefs_call ==
    /\ gpc = "idle"
    /\ brief_calls < MaxBriefCalls
    /\ brief_calls' = brief_calls + 1
    /\ gpc' = IF articles = <<>> THEN "idle" ELSE "loop"
    /\ gi' = 1
    /\ briefs' = <<>>
    /\ gevent' = NoEvent
    /\ UNCHANGED <<articles, lvars, svars, nvars>>

\* lines 193-197: an article already marked is skipped
generate_briefs_skip ==
    /\ gpc = "loop"
    /\ gi <= Len(articles)
    /\ articles[gi].analysis_briefs_generated
    /\ gi' = gi + 1
    /\ gevent' = [article |-> gi, skipped |-> TRUE, outcomes |-> <<>>]
    /\ UNCHANGED <<articles, gpc, brief_calls, briefs, lvars, svars, nvars>>

\* lines 199-207: an article without tickers is marked
generate_briefs_no_tickers ==
    /\ gpc = "loop"
    /\ gi <= Len(articles)
    /\ ~articles[gi].analysis_briefs_generated
    /\ articles[gi].tickers = <<>>
    /\ articles' = [articles EXCEPT ![gi].analysis_briefs_generated = TRUE]
    /\ gi' = gi + 1
    /\ gevent' = [article |-> gi, skipped |-> FALSE, outcomes |-> <<>>]
    /\ UNCHANGED <<gpc, brief_calls, briefs, lvars, svars, nvars>>

\* lines 209-243: the tickers of one article, one outcome per ticker
generate_briefs_article(outcomes) ==
    /\ gpc = "loop"
    /\ gi <= Len(articles)
    /\ ~articles[gi].analysis_briefs_generated
    /\ articles[gi].tickers # <<>>
    /\ Len(outcomes) = Len(articles[gi].tickers)
    /\ LET article_completed ==
               \E k \in 1..Len(outcomes) : outcomes[k] \in DispatchReturned
       IN  articles' = [articles EXCEPT
                           ![gi].analysis_briefs_generated = article_completed]
    /\ briefs' = briefs \o NewBriefs(gi, articles[gi].tickers, outcomes)
    /\ gi' = gi + 1
    /\ gevent' = [article |-> gi, skipped |-> FALSE, outcomes |-> outcomes]
    /\ UNCHANGED <<gpc, brief_calls, lvars, svars, nvars>>

\* lines 245-248: the list is exhausted, briefs is returned
generate_briefs_return ==
    /\ gpc = "loop"
    /\ gi > Len(articles)
    /\ gpc' = "idle"
    /\ gevent' = NoEvent
    /\ UNCHANGED <<articles, gi, brief_calls, briefs, lvars, svars, nvars>>

\* the outcomes of the tickers of one article
OutcomeLists == UNION { [1..n -> TickerOutcomes] : n \in 1..2 }

generate_briefs_for_articles ==
    \/ generate_briefs_call
    \/ generate_briefs_skip
    \/ generate_briefs_no_tickers
    \/ \E outcomes \in OutcomeLists : generate_briefs_article(outcomes)
    \/ generate_briefs_return

(***************************************************************************)
(* Specifications.                                                         *)
(***************************************************************************)
\* A launcher of one of the three classes as its __init__ leaves it, next to
\* a service that is never sent a request.
LauncherInit ==
    /\ kind \in Kinds
    /\ instances = <<>>
    /\ lpc = "idle"
    /\ calls_left = 1
    /\ li = 1
    /\ tpc = [i \in Slots |-> "none"]
    /\ proc = [i \in Slots |-> NoProc]
    /\ result_queue = <<>>
    /\ results = <<>>
    /\ job_limit = MaxJobs
    /\ hreq = [h \in Handlers |-> Idle]
    /\ submitted = [id \in Ids |-> None]
    /\ threads = [id \in Ids |-> 0]
    /\ spawns = [id \in Ids |-> 0]
    /\ rc_cmd = [id \in Ids |-> NoCmd]
    /\ resp = NoResponse
    /\ news_file = NoFile
    /\ fetch_runs = 0
    /\ articles = <<>>
    /\ gpc = "off"
    /\ gi = 1
    /\ brief_calls = 0
    /\ briefs = <<>>
    /\ gevent = NoEvent
    /\ jobs = << >>
    /\ next_id = 1
    /\ clock = 1
    /\ rc_pc = [id \in Ids |-> "none"]
    /\ rc_exc = [id \in Ids |-> ""]
    /\ wproc = [id \in Ids |-> NoProc]

\* the batch launchers alone
LauncherSpec == LauncherInit /\ [][LNext]_vars

\* A CrawlerLauncher as its __init__ leaves it; run_all_parallel,
\* run_all_sequential and run_instance of the other two classes are the same
\* statements.
CrawlerInit ==
    /\ kind = "crawler"
    /\ instances = <<>>
    /\ lpc = "idle"
    /\ calls_left = 1
    /\ li = 1
    /\ tpc = [i \in Slots |-> "none"]
    /\ proc = [i \in Slots |-> NoProc]
    /\ result_queue = <<>>
    /\ results = <<>>
    /\ job_limit = MaxJobs
    /\ hreq = [h \in Handlers |-> Idle]
    /\ submitted = [id \in Ids |-> None]
    /\ threads = [id \in Ids |-> 0]
    /\ spawns = [id \in Ids |-> 0]
    /\ rc_cmd = [id \in Ids |-> NoCmd]
    /\ resp = NoResponse
    /\ news_file = NoFile
    /\ fetch_runs = 0
    /\ articles = <<>>
    /\ gpc = "off"
    /\ gi = 1
    /\ brief_calls = 0
    /\ briefs = <<>>
    /\ gevent = NoEvent
    /\ jobs = << >>
    /\ next_id = 1
    /\ clock = 1
    /\ rc_pc = [id \in Ids |-> "none"]
    /\ rc_exc = [id \in Ids |-> ""]
    /\ wproc = [id \in Ids |-> NoProc]

\* a step of a call of run_all_parallel or run_all_sequential: of the calling
\* thread, of one of the run_instance executions, or of a worker that ends
\* by itself or at the deadline
RunAllStep ==
    \/ par_start_thread
    \/ par_start_done
    \/ par_join_thread
    \/ par_collect
    \/ seq_call
    \/ seq_get
    \/ seq_return
    \/ \E i \in Slots : run_instance_spawn(i)
    \/ \E i \in Slots : run_instance_spawn_error(i)
    \/ \E i \in Slots : worker_exit(i)
    \/ \E i \in Slots : run_instance_exit(i)
    \/ \E i \in Slots : run_instance_timeout(i)

\* A launcher with the scheduling the interpreter guarantees and with workers
\* that do not run for ever without their deadline passing: as long as a
\* thread of the call can take a step or a worker is running, a step is
\* taken.  Nothing obliges the caller to add a job or to call
\* run_all_parallel or run_all_sequential.
LauncherFairSpec ==
    /\ CrawlerInit
    /\ [][LNext]_vars
    /\ WF_vars(RunAllStep)

\* A launcher whose caller calls run_all_parallel and run_all_sequential up
\* to MaxCalls times, in any order, adding jobs before and between the calls:
\* a CrawlerLauncher or a ScraperLauncher.
RerunInit ==
    /\ kind \in {"crawler", "scraper"}
    /\ instances = <<>>
    /\ lpc = "idle"
    /\ calls_left = MaxCalls
    /\ li = 1
    /\ tpc = [i \in Slots |-> "none"]
    /\ proc = [i \in Slots |-> NoProc]
    /\ result_queue = <<>>
    /\ results = <<>>
    /\ job_limit = MaxJobs
    /\ hreq = [h \in Handlers |-> Idle]
    /\ submitted = [id \in Ids |-> None]
    /\ threads = [id \in Ids |-> 0]
    /\ spawns = [id \in Ids |-> 0]
    /\ rc_cmd = [id \in Ids |-> NoCmd]
    /\ resp = NoResponse
    /\ news_file = NoFile
    /\ fetch_runs = 0
    /\ articles = <<>>
    /\ gpc = "off"
    /\ gi = 1
    /\ brief_calls = 0
    /\ briefs = <<>>
    /\ gevent = NoEvent
    /\ jobs = << >>
    /\ next_id = 1
    /\ clock = 1
    /\ rc_pc = [id \in Ids |-> "none"]
    /\ rc_exc = [id \in Ids |-> ""]
    /\ wproc = [id \in Ids |-> NoProc]

\* the batch launchers, called repeatedly
RerunSpec == RerunInit /\ [][LNext]_vars

\* The service as the import of server.py leaves it (jobs = {}), next to a
\* launcher that is never used.
ServiceInit ==
    /\ jobs = << >>
    /\ next_id = 1
    /\ clock = 1
    /\ rc_pc = [id \in Ids |-> "none"]
    /\ rc_exc = [id \in Ids |-> ""]
    /\ wproc = [id \in Ids |-> NoProc]
    /\ kind = "crawler"
    /\ instances = <<>>
    /\ lpc = "idle"
    /\ calls_left = 1
    /\ li = 1
    /\ tpc = [i \in Slots |-> "none"]
    /\ proc = [i \in Slots |-> NoProc]
    /\ result_queue = <<>>
    /\ results = <<>>
    /\ job_limit = MaxJobs
    /\ hreq = [h \in Handlers |-> Idle]
    /\ submitted = [id \in Ids |-> None]
    /\ threads = [id \in Ids |-> 0]
    /\ spawns = [id \in Ids |-> 0]
    /\ rc_cmd = [id \in Ids |-> NoCmd]
    /\ resp = NoResponse
    /\ news_file = NoFile
    /\ fetch_runs = 0
    /\ articles = <<>>
    /\ gpc = "off"
    /\ gi = 1
    /\ brief_calls = 0
    /\ briefs = <<>>
    /\ gevent = NoEvent

\* the Job Service alone
ServiceSpec == ServiceInit /\ [][SNext]_vars

\* The Job Service with the scheduling the interpreter guarantees: a started
\* thread keeps being scheduled, so every enabled step of run_crawler is
\* eventually taken.  Nothing obliges a worker process to exit, and nothing
\* obliges a client to send a request.
ServiceFairSpec ==
    /\ ServiceSpec
    /\ \A id \in Ids : WF_vars(run_crawler(id))

\* The service as the import of server.py leaves it, with clients that send
\* at most MaxHttpJobs valid submissions.
HttpInit ==
    /\ jobs = << >>
    /\ next_id = 1
    /\ clock = 1
    /\ rc_pc = [id \in Ids |-> "none"]
    /\ rc_exc = [id \in Ids |-> ""]
    /\ wproc = [id \in Ids |-> NoProc]
    /\ kind = "crawler"
    /\ instances = <<>>
    /\ lpc = "idle"
    /\ calls_left = 1
    /\ li = 1
    /\ tpc = [i \in Slots |-> "none"]
    /\ proc = [i \in Slots |-> NoProc]
    /\ result_queue = <<>>
    /\ results = <<>>
    /\ job_limit = MaxHttpJobs
    /\ hreq = [h \in Handlers |-> Idle]
    /\ submitted = [id \in Ids |-> None]
    /\ threads = [id \in Ids |-> 0]
    /\ spawns = [id \in Ids |-> 0]
    /\ rc_cmd = [id \in Ids |-> NoCmd]
    /\ resp = NoResponse
    /\ news_file = NoFile
    /\ fetch_runs = 0
    /\ articles = <<>>
    /\ gpc = "off"
    /\ gi = 1
    /\ brief_calls = 0
    /\ briefs = <<>>
    /\ gevent = NoEvent

\* the Job Service with its request handlers taken statement by statement
HttpSpec == HttpInit /\ [][HNext]_vars

\* the Job Service answering one client
ClientSpec == HttpInit /\ [][ClientNext]_vars

\* The service as the import of server.py leaves it, at most MaxTimedJobs
\* submissions to come, the clock at its first reading.
TimedInit ==
    /\ jobs = << >>
    /\ next_id = 1
    /\ clock = 1
    /\ rc_pc = [id \in Ids |-> "none"]
    /\ rc_exc = [id \in Ids |-> ""]
    /\ wproc = [id \in Ids |-> NoProc]
    /\ kind = "crawler"
    /\ instances = <<>>
    /\ lpc = "idle"
    /\ calls_left = 1
    /\ li = 1
    /\ tpc = [i \in Slots |-> "none"]
    /\ proc = [i \in Slots |-> NoProc]
    /\ result_queue = <<>>
    /\ results = <<>>
    /\ job_limit = MaxTimedJobs
    /\ hreq = [h \in Handlers |-> Idle]
    /\ submitted = [id \in Ids |-> None]
    /\ threads = [id \in Ids |-> 0]
    /\ spawns = [id \in Ids |-> 0]
    /\ rc_cmd = [id \in Ids |-> NoCmd]
    /\ resp = NoResponse
    /\ news_file = NoFile
    /\ fetch_runs = 0
    /\ articles = <<>>
    /\ gpc = "off"
    /\ gi = 1
    /\ brief_calls = 0
    /\ briefs = <<>>
    /\ gevent = NoEvent

\* the Job Service while time passes
TimedSpec == TimedInit /\ [][TNext]_vars

\* the four programs of src/headless-ai-browser: the three launchers and
\* the server
Programs == Kinds \cup {"server"}

\* every program of the repository
PNext == LNext \/ SNext

\* One of the programs is run: a launcher script (no server, so no
\* submission is ever accepted) or server.py (no launcher object exists).
ProgramInit ==
    /\ kind \in Programs
    /\ instances = <<>>
    /\ lpc = IF kind = "server" THEN "off" ELSE "idle"
    /\ calls_left = 1
    /\ li = 1
    /\ tpc = [i \in Slots |-> "none"]
    /\ proc = [i \in Slots |-> NoProc]
    /\ result_queue = <<>>
    /\ results = <<>>
    /\ jobs = << >>
    /\ next_id = 1
    /\ clock = 1
    /\ rc_pc = [id \in Ids |-> "none"]
    /\ rc_exc = [id \in Ids |-> ""]
    /\ wproc = [id \in Ids |-> NoProc]
    /\ job_limit = IF kind = "server" THEN MaxJobs ELSE 0
    /\ hreq = [h \in Handlers |-> Idle]
    /\ submitted = [id \in Ids |-> None]
    /\ threads = [id \in Ids |-> 0]
    /\ spawns = [id \in Ids |-> 0]
    /\ rc_cmd = [id \in Ids |-> NoCmd]
    /\ resp = NoResponse
    /\ news_file = NoFile
    /\ fetch_runs = 0
    /\ articles = <<>>
    /\ gpc = "off"
    /\ gi = 1
    /\ brief_calls = 0
    /\ briefs = <<>>
    /\ gevent = NoEvent

\* a launcher or the Job Service, whichever is run
ProgramSpec == ProgramInit /\ [][PNext]_vars

\* The Flask server has just started fetch_news_periodically;
\* news_articles.json does not exist yet.
NewsInit ==
    /\ news_file = NoFile
    /\ fetch_runs = 0
    /\ articles = <<>>
    /\ gpc = "off"
    /\ gi = 1
    /\ brief_calls = 0
    /\ briefs = <<>>
    /\ gevent = NoEvent
    /\ kind = "crawler"
    /\ instances = <<>>
    /\ lpc = "idle"
    /\ calls_left = 1
    /\ li = 1
    /\ tpc = [i \in Slots |-> "none"]
    /\ proc = [i \in Slots |-> NoProc]
    /\ result_queue = <<>>
    /\ results = <<>>
    /\ jobs = << >>
    /\ next_id = 1
    /\ clock = 1
    /\ rc_pc = [id \in Ids |-> "none"]
    /\ rc_exc = [id \in Ids |-> ""]
    /\ wproc = [id \in Ids |-> NoProc]
    /\ job_limit = MaxJobs
    /\ hreq = [h \in Handlers |-> Idle]
    /\ submitted = [id \in Ids |-> None]
    /\ threads = [id \in Ids |-> 0]
    /\ spawns = [id \in Ids |-> 0]
    /\ rc_cmd = [id \in Ids |-> NoCmd]
    /\ resp = NoResponse

NewsNext == fetch_news_periodically

\* the periodic runs of fetch_news.main
NewsSpec == NewsInit /\ [][NewsNext]_vars

\* A caller holds a list of articles, none marked yet, and is about to call
\* generate_briefs_for_articles on it.
BriefInit ==
    /\ articles \in ArticlesToBrief(MaxArticles)
    /\ gpc = "idle"
    /\ gi = 1
    /\ brief_calls = 0
    /\ briefs = <<>>
    /\ gevent = NoEvent
    /\ news_file = NoFile
    /\ fetch_runs = 0
    /\ kind = "crawler"
    /\ instances = <<>>
    /\ lpc = "idle"
    /\ calls_left = 1
    /\ li = 1
    /\ tpc = [i \in Slots |-> "none"]
    /\ proc = [i \in Slots |-> NoProc]
    /\ result_queue = <<>>
    /\ results = <<>>
    /\ jobs = << >>
    /\ next_id = 1
    /\ clock = 1
    /\ rc_pc = [id \in Ids |-> "none"]
    /\ rc_exc = [id \in Ids |-> ""]
    /\ wproc = [id \in Ids |-> NoProc]
    /\ job_limit = MaxJobs
    /\ hreq = [h \in Handlers |-> Idle]
    /\ submitted = [id \in Ids |-> None]
    /\ threads = [id \in Ids |-> 0]
    /\ spawns = [id \in Ids |-> 0]
    /\ rc_cmd = [id \in Ids |-> NoCmd]
    /\ resp = NoResponse

BriefNext == generate_briefs_for_articles

\* calls of generate_briefs_for_articles on the same list
BriefSpec == BriefInit /\ [][BriefNext]_vars

(***************************************************************************)
(* Launchers: properties.                                                  *)
(***************************************************************************)
\* every Result put so far, whether still queued or already collected
AllResults == results \o result_queue

\* the positions in AllResults of the Results built for job i
ResultsOf(i) == {k \in 1..Len(AllResults) : AllResults[k].idx = i}

IsTimeoutResult(r) ==
    /\ "error" \in DOMAIN r
    /\ \E k \in Kinds : r.error = TimeoutMessage(k)

IsExitResult(r) == "returncode" \in DOMAIN r

\* C1: when run_all_parallel / run_all_sequential has returned, the i-th
\* element of the returned list is the Result of the i-th added job
\* (submission order, not completion order).
C1_SubmissionOrder ==
    lpc = "done" => \A k \in 1..Len(results) : results[k].idx = k

\* C2: run_all_parallel and run_all_sequential return exactly N Results for a
\* batch of N jobs, exactly one per job, whatever the workers' outcomes.
C2_OneResultPerJob ==
    lpc = "done" =>
        /\ Len(results) = N
        /\ \A i \in 1..N :
              Cardinality({k \in 1..Len(results) : results[k].idx = i}) = 1

\* C2 witness: a returned batch of two that holds a timeout and a spawn error
C2_Witness ==
    /\ lpc = "done"
    /\ N = 2
    /\ \E a, b \in 1..Len(results) :
          /\ IsTimeoutResult(results[a])
          /\ "error" \in DOMAIN results[b]
          /\ results[b].error \in SpawnErrors

\* C3: no exception escapes run_instance, a run_all_* call is never aborted,
\* and when it has returned every job of the batch was started and ran to
\* its own outcome, whatever happened to the other jobs.
C3_FailureIsolated ==
    /\ \A i \in Slots : tpc[i] # "raised"
    /\ lpc # "aborted"
    /\ lpc = "done" =>
          \A i \in 1..N :
              /\ tpc[i] = "done"
              /\ ResultsOf(i) # {}
              /\ proc[i].state = "none" =>
                    \E k \in ResultsOf(i) : AllResults[k].error \in SpawnErrors

\* C3 witness: a returned batch whose first job failed (timeout or spawn
\* error) and whose second job, started after it, succeeded
C3_Witness ==
    /\ lpc = "done"
    /\ N = 2
    /\ \E a, b \in 1..Len(results) :
          /\ results[a].idx = 1 /\ ~results[a].success
          /\ "error" \in DOMAIN results[a]
          /\ results[b].idx = 2 /\ results[b].success

\* C7: a worker still running at the deadline makes run_instance stop
\* waiting and yield exactly one Result, with success = false and an error
\* naming the launcher's deadline.
C7_TimeoutResult ==
    \A i \in 1..N :
        proc[i].state = "killed" =>
            /\ tpc[i] = "done"
            /\ Cardinality(ResultsOf(i)) = 1
            /\ \A k \in ResultsOf(i) :
                  /\ AllResults[k].success = FALSE
                  /\ DOMAIN AllResults[k] = {"idx", "instance", "success", "error"}
                  /\ AllResults[k].error =
                        "Timeout after " \o ToString(TimeoutOf(kind)) \o " seconds"

\* C7 witness: a ScraperLauncher job that hit the 120 s deadline
C7_Witness ==
    /\ kind = "scraper"
    /\ \E i \in 1..N :
          /\ proc[i].state = "killed"
          /\ \E k \in ResultsOf(i) : AllResults[k].error = "Timeout after 120 seconds"

\* C8: once run_instance has yielded a timeout Result, neither the worker
\* nor a process the worker started is still alive.
C8_NoProcessLeftOnTimeout ==
    \A i \in 1..N :
        (\E k \in ResultsOf(i) : IsTimeoutResult(AllResults[k])) =>
            /\ proc[i].state # "running"
            /\ ~proc[i].desc

\* C9: when the worker exits before the deadline, the Result has
\* success = (exit code = 0) and carries the worker's stdout, stderr and
\* exit code unchanged.
C9_ExitResultVerbatim ==
    \A i \in 1..N :
        (tpc[i] = "done" /\ proc[i].state = "exited") =>
            /\ Cardinality(ResultsOf(i)) = 1
            /\ \A k \in ResultsOf(i) :
                  /\ IsExitResult(AllResults[k])
                  /\ AllResults[k].success = (proc[i].returncode = 0)
                  /\ AllResults[k].stdout = proc[i].stdout
                  /\ AllResults[k].stderr = proc[i].stderr
                  /\ AllResults[k].returncode = proc[i].returncode

\* C9 witness: one batch with a successful exit and a failing exit
C9_Witness ==
    \E a, b \in 1..Len(AllResults) :
        /\ IsExitResult(AllResults[a]) /\ AllResults[a].returncode = 0
        /\ AllResults[a].success /\ AllResults[a].stdout # <<>>
        /\ IsExitResult(AllResults[b]) /\ AllResults[b].returncode # 0
        /\ ~AllResults[b].success

(***************************************************************************)
(* Job Service: properties.                                                *)
(***************************************************************************)
Terminal == {"completed", "failed"}

\* the status changes the state machine of the service allows
StatusStep(a, b) ==
    \/ a = b
    \/ a = "queued" /\ b = "running"
    \/ a = "running" /\ b \in Terminal

\* run_crawler has returned for a job that is still registered and whose
\* worker exited on its own
ReturnedAfterExit(id) ==
    /\ id \in DOMAIN jobs
    /\ rc_pc[id] = "done"
    /\ wproc[id].state = "exited"

\* C4: in every step of run_crawler or of a handler, the status of a job that
\* stays in the registry either keeps its value or moves queued -> running
\* or running -> completed | failed; nothing else.
C4_StatusMonotonic ==
    [][\A id \in Ids :
          (id \in DOMAIN jobs /\ id \in DOMAIN jobs') =>
              StatusStep(jobs[id].status, jobs'[id].status)]_vars

\* C4 witness: one job ended completed and another ended failed
C4_Witness ==
    \E a, b \in DOMAIN jobs :
        /\ rc_pc[a] = "done" /\ jobs[a].status = "completed"
        /\ rc_pc[b] = "done" /\ jobs[b].status = "failed"

\* C5: a job whose worker exited with a non-zero code ends failed, whatever
\* the worker printed, and the exit code is recorded on the job.
C5_NonZeroExitFails ==
    \A id \in Ids :
        (ReturnedAfterExit(id) /\ wproc[id].returncode # 0) =>
            /\ jobs[id].status = "failed"
            /\ "return_code" \in DOMAIN jobs[id]
            /\ jobs[id].return_code = wproc[id].returncode

\* C6: every job that was submitted and is not deleted eventually reaches
\* completed or failed, also when its worker never exits on its own.
C6_EveryJobEnds ==
    \A id \in Ids :
        (id \in DOMAIN jobs) ~>
            (id \notin DOMAIN jobs \/ jobs[id].status \in Terminal)

\* C10: once run_crawler has returned for a job whose worker exited on its
\* own, the job record carries the worker's stdout, stderr and exit code,
\* for completed and for failed alike.  (The parsed JSON document counts as
\* carrying stdout.)
C10_DiagnosticsKept ==
    \A id \in Ids :
        (ReturnedAfterExit(id) /\ jobs[id].status \in Terminal) =>
            /\ "return_code" \in DOMAIN jobs[id]
            /\ jobs[id].return_code = wproc[id].returncode
            /\ jobs[id].result # None
            /\ \/ /\ "stdout" \in DOMAIN jobs[id].result[1]
                  /\ jobs[id].result[1].stdout = wproc[id].stdout
               \/ /\ JsonLoads(Strip(wproc[id].stdout)).ok
                  /\ jobs[id].result[1] = JsonLoads(Strip(wproc[id].stdout)).value
            /\ "stderr" \in DOMAIN jobs[id].result[1]
            /\ jobs[id].result[1].stderr = wproc[id].stderr

\* run_crawler caught the OSError of a worker that could not be started
SpawnFailed(id) ==
    /\ rc_pc[id] \in {"l66", "l67", "l68", "done", "crashed"}
    /\ rc_exc[id] \in SpawnErrors

\* C11: when the worker cannot be started, a launcher's run_instance yields
\* a Result with success = false whose error is the message of the OS error,
\* and run_crawler leaves the job failed with error set to that message and
\* completed_at set; the OS error escapes neither invoker (run_crawler ends
\* without finishing its except block only when the job was deleted).
C11_SpawnFailureContained ==
    /\ \A i \in Slots : tpc[i] # "raised"
    /\ \A i \in 1..N :
          (tpc[i] = "done" /\ proc[i].state = "none") =>
              /\ ResultsOf(i) # {}
              /\ \A k \in ResultsOf(i) :
                    /\ AllResults[k].success = FALSE
                    /\ DOMAIN AllResults[k] = {"idx", "instance", "success", "error"}
                    /\ AllResults[k].error \in SpawnErrors
    /\ \A id \in Ids :
          SpawnFailed(id) =>
              /\ rc_pc[id] = "crashed" => id \notin DOMAIN jobs
              /\ (rc_pc[id] = "done" /\ id \in DOMAIN jobs) =>
                    /\ jobs[id].status = "failed"
                    /\ jobs[id].error = Some(rc_exc[id])
                    /\ jobs[id].completed_at # None
                    /\ jobs[id].result = None

\* C11 witness: run_crawler returned for a registered job whose worker could
\* not be started
C11_Witness ==
    \E id \in DOMAIN jobs :
        /\ SpawnFailed(id)
        /\ rc_pc[id] = "done"
        /\ wproc[id].state = "none"
        /\ jobs[id].status = "failed"

\* a POST /crawl body the interface refuses: no body, ticker, topic or goal
\* missing or empty, sources missing, empty or not an array
Malformed(data) ==
    \/ \A k \in {"ticker", "topic", "goal", "sources", "metadata"} : data[k] = None
    \/ \E k \in {"ticker", "topic", "goal"} : data[k] = None \/ data[k] = Some("")
    \/ data.sources = None
    \/ data.sources[1].type # "array"
    \/ data.sources[1].items = <<>>

RejectionMessages ==
    {"Request body required", "ticker is required", "topic is required",
     "goal is required", "sources must be a non-empty array"}

\* C12: a POST /crawl whose body is malformed is answered 400 with an error
\* message, and the step that answers it leaves the registry exactly as it
\* was, starts no run_crawler thread and no worker.
C12_MalformedRejected ==
    [][(resp'.op = "POST" /\ Malformed(resp'.req)) =>
          /\ resp'.code = 400
          /\ DOMAIN resp'.body = {"error"}
          /\ resp'.body.error \in RejectionMessages
          /\ jobs' = jobs
          /\ next_id' = next_id
          /\ rc_pc' = rc_pc
          /\ wproc' = wproc
          /\ hreq' = hreq]_vars

\* C12 witness: with a job registered, a submission whose sources is not an
\* array has just been refused
C12_Witness ==
    /\ resp.op = "POST"
    /\ resp.code = 400
    /\ resp.req.sources # None
    /\ resp.req.sources[1].type = "string"
    /\ resp.body.error = "sources must be a non-empty array"
    /\ DOMAIN jobs # {}

\* the step answers a GET /jobs/{id} that arrived after the POST that created
\* the job had returned, the job not having been deleted since
GetAfterPost(h) ==
    /\ hreq[h].op = "get"
    /\ hreq[h].after_post
    /\ hreq[h].id \in DOMAIN jobs
    /\ hreq'[h] = Idle
    /\ resp'.op = "GET"

\* the snapshot carries the descriptor that was submitted for job id
SameDescriptor(body, id) ==
    LET data == submitted[id][1]
    IN  /\ body.job_id = id
        /\ body.ticker = data.ticker[1]
        /\ body.topic = data.topic[1]
        /\ body.goal = data.goal[1]
        /\ body.sources = data.sources[1].items
        /\ body.metadata = IF data.metadata = None THEN "{}" ELSE data.metadata[1]

\* C13 as claimed: a GET /jobs/{id} issued after the POST returned, with no
\* delete in between, returns the job with status queued and the submitted
\* ticker, topic, goal, sources and metadata.
C13_GetAfterPostQueued ==
    [][\A h \in Handlers :
          GetAfterPost(h) =>
              /\ resp'.code = 200
              /\ resp'.body.status = "queued"
              /\ SameDescriptor(resp'.body, hreq[h].id)]_vars

\* C13 amended: such a GET returns the job with the submitted ticker, topic,
\* goal, sources and metadata ({} when none was submitted) and with the
\* status the job has by then: queued, or already running, completed or
\* failed, because the run_crawler thread was started before the POST
\* returned.
C13_GetAfterPostCurrent ==
    [][\A h \in Handlers :
          GetAfterPost(h) =>
              /\ resp'.code = 200
              /\ resp'.body.status \in {"queued", "running", "completed", "failed"}
              /\ resp'.body.status = jobs[hreq[h].id].status
              /\ SameDescriptor(resp'.body, hreq[h].id)]_vars

\* C13 witness: the GET that followed the 202 was just answered with a job
\* that is already running, its metadata being the default
C13_Witness ==
    /\ resp.op = "GET"
    /\ resp.code = 200
    /\ Announced(resp.req)
    /\ resp.body.status = "running"
    /\ resp.body.metadata = EmptyMetadata
    /\ SameDescriptor(resp.body, resp.req)

\* C14: start_crawl answers without waiting for the worker: from the moment
\* the job is registered and its thread started, the statement that returns
\* the response can be taken, whatever run_crawler and the worker are doing,
\* also while the worker runs and never exits.
C14_ResponseNotDelayed ==
    \A h \in Handlers :
        hreq[h].op = "post" =>
            /\ rc_pc[hreq[h].id] # "none"
            /\ ENABLED start_crawl_l159(h)

\* C14 witness: the worker of the job is running, run_crawler waits for it,
\* and start_crawl has not returned yet
C14_Witness ==
    \E h \in Handlers :
        /\ hreq[h].op = "post"
        /\ hreq[h].id \in DOMAIN jobs
        /\ rc_pc[hreq[h].id] = "wait"
        /\ wproc[hreq[h].id].state = "running"
        /\ jobs[hreq[h].id].status = "running"

\* C15: GET /jobs/{id} always answers 200 with the job's snapshot or 404
\* "Job not found", 404 exactly when the id is not in the registry, and never
\* with an unhandled error, also when a DELETE of the same id runs
\* concurrently.
C15_GetAnswers200Or404 ==
    resp.op = "GET" =>
        /\ resp.code \in {200, 404}
        /\ resp.code = 404 <=> resp.req \notin DOMAIN jobs
        /\ resp.code = 404 => resp.body = [error |-> "Job not found"]
        /\ resp.code = 200 => resp.body = jobs[resp.req]

\* C16: DELETE /jobs/{id} checks and removes atomically: 404 and no change
\* when the id is absent, otherwise the entry is removed and the answer is
\* 200; of two concurrent deletes one answers 200 and the other 404, and
\* none fails with an unhandled error.
C16_DeleteAtomic ==
    [][resp'.op = "DELETE" =>
          /\ resp'.code \in {200, 404}
          /\ resp'.code = 404 <=> resp'.req \notin DOMAIN jobs
          /\ resp'.code = 404 => jobs' = jobs
          /\ resp'.code = 200 =>
                jobs' = [j \in DOMAIN jobs \ {resp'.req} |-> jobs[j]]]_vars

\* C17: a DELETE changes nothing of the job's run_crawler thread or worker,
\* and once an id has left the registry no later step puts an entry for it
\* back: what run_crawler would have stored is dropped.
C17_DeletedStaysDeleted ==
    [][\A id \in Ids :
          /\ (id \in DOMAIN jobs /\ id \notin DOMAIN jobs') =>
                (rc_pc' = rc_pc /\ rc_exc' = rc_exc /\ wproc' = wproc)
          /\ (rc_pc[id] # "none" /\ id \notin DOMAIN jobs) =>
                id \notin DOMAIN jobs']_vars

\* C17 witness: the worker of a deleted job exited with code 0, run_crawler
\* tried to store its outcome and ended, and the registry has no entry for
\* the job
C17_Witness ==
    \E id \in Ids :
        /\ id \notin DOMAIN jobs
        /\ wproc[id].state = "exited"
        /\ wproc[id].returncode = 0
        /\ rc_exc[id] = KeyErrorText
        /\ rc_pc[id] = "crashed"

\* C18: in every response of GET /jobs, count equals the number of entries
\* in jobs, also while submissions and deletions run concurrently.
C18_ListCountConsistent ==
    resp.op = "LIST" =>
        /\ resp.code = 200
        /\ resp.body.count = Len(resp.body.jobs)

\* a handler has touched the registry and has another access to make
HandlerInside(h) == hreq[h] # Idle

\* run_crawler has made one of the writes of a status change of the job's
\* entry and has the others to make
CrawlerInside(id) == rc_pc[id] \in {"l39", "l53", "l60", "l62", "l63", "l67", "l68"}

\* C19: in no reachable state are two components (two handlers, a handler
\* and a run_crawler thread, two run_crawler threads) in the middle of
\* reading or writing the registry at the same time.
C19_RegistrySerialized ==
    Cardinality({h \in Handlers : HandlerInside(h)})
        + Cardinality({id \in Ids : CrawlerInside(id)}) <= 1

TimeKeys == {"created_at", "started_at", "completed_at"}

\* C20: created_at, started_at and completed_at are each written at most
\* once and never overwritten, started_at only on a job that has created_at
\* and completed_at only on one that has started_at, so that
\* created_at <= started_at <= completed_at whenever they are set.
C20_TimestampsOrdered ==
    [][\A id \in DOMAIN jobs' :
          LET j == jobs'[id]
          IN  /\ id \in DOMAIN jobs =>
                    \A k \in TimeKeys : jobs[id][k] # None => j[k] = jobs[id][k]
              /\ j.created_at # None
              /\ j.completed_at # None => j.started_at # None
              /\ j.started_at # None => j.created_at[1] <= j.started_at[1]
              /\ j.completed_at # None => j.started_at[1] <= j.completed_at[1]]_vars

\* C20 witness: a job whose three timestamps are set and strictly increasing
C20_Witness ==
    \E id \in DOMAIN jobs :
        /\ jobs[id].started_at # None
        /\ jobs[id].completed_at # None
        /\ jobs[id].created_at[1] < jobs[id].started_at[1]
        /\ jobs[id].started_at[1] < jobs[id].completed_at[1]

\* C21: every job snapshot a GET returns has timestamps that agree with its
\* status: running, completed or failed come with started_at, and completed
\* or failed also with completed_at and started_at <= completed_at, at
\* whatever point of run_crawler the request is served.
C21_SnapshotTimestampsAgree ==
    (resp.op = "GET" /\ resp.code = 200) =>
        LET j == resp.body
        IN  /\ j.status \in {"running", "completed", "failed"} =>
                  j.started_at # None
            /\ j.status \in {"completed", "failed"} =>
                  /\ j.completed_at # None
                  /\ j.started_at # None
                  /\ j.started_at[1] <= j.completed_at[1]

\* C22: in every state of the registry a job has a result only if its status
\* is completed or failed, and an error only if its status is failed.
C22_ResultOnlyWhenTerminal ==
    \A id \in DOMAIN jobs :
        /\ jobs[id].result # None => jobs[id].status \in {"completed", "failed"}
        /\ jobs[id].error # None => jobs[id].status = "failed"

\* C23: a job id has at most one run_crawler execution and at most one worker
\* process over its whole life: the thread of a job is started once, by the
\* submission that created the id, and it calls subprocess.run once.
C23_OneExecutionPerJob ==
    \A id \in Ids :
        /\ threads[id] <= 1
        /\ spawns[id] <= 1
        /\ rc_pc[id] # "none" => threads[id] = 1
        /\ wproc[id].state # "none" => spawns[id] = 1
        /\ spawns[id] <= threads[id]
        /\ id >= next_id => threads[id] = 0

\* both jobs were submitted and each has its one worker running
C23_Witness ==
    /\ next_id = MaxJobs + 1
    /\ \A id \in 1..MaxJobs :
          /\ wproc[id].state = "running"
          /\ threads[id] = 1
          /\ spawns[id] = 1

\* the run_crawler thread of a job has a statement left to execute that does
\* not wait for its own worker
Runnable(id) ==
    /\ rc_pc[id] \notin {"none", "done", "crashed"}
    /\ ~(rc_pc[id] = "wait" /\ wproc[id].state = "running")

\* C24: jobs are independent.  Whatever the other jobs are doing, a job's
\* thread can take its next step (starting its worker included), a running
\* worker can finish, and a valid submission is accepted as long as the
\* service has an id left: nothing waits for an earlier job's worker.
C24_JobsIndependent ==
    /\ \A id \in Ids : Runnable(id) => ENABLED run_crawler(id)
    /\ \A id \in Ids : rc_pc[id] = "l42" => ENABLED rc_l42_spawn(id)
    /\ \A id \in Ids : wproc[id].state = "running" => ENABLED svc_worker_exit(id)
    /\ next_id <= job_limit => ENABLED (\E data \in Requests : start_crawl(data))

\* the second job has reached a terminal outcome while the worker of the
\* first, submitted before it, is still running
C24_Witness ==
    /\ wproc[1].state = "running"
    /\ rc_pc[2] = "done"
    /\ spawns[2] = 1
    /\ 2 \in DOMAIN jobs
    /\ jobs[2].status \in {"completed", "failed"}

\* C25: an entry leaves the registry only through DELETE /jobs/<id>.  A step
\* after which a job id is no longer a key of `jobs` is the step of
\* delete_job that answers 200 for that id; a submission, a GET, a listing, a
\* health check and every statement of run_crawler keep all the keys.
C25_OnlyDeleteRemoves ==
    [][\A id \in DOMAIN jobs :
          id \notin DOMAIN jobs' =>
              resp' = Response("DELETE", id, 200,
                               [message |-> "deleted", job_id |-> id])]_vars

\* a job that was kept through its whole run_crawler has just been deleted
C25_Witness ==
    /\ resp.op = "DELETE"
    /\ resp.code = 200
    /\ resp.req \notin DOMAIN jobs
    /\ rc_pc[resp.req] = "done"

\* C26: in the batch variant a job with an empty sources list is rejected
\* when it is added: it never is part of self.instances of a CrawlerLauncher
\* or StockGuardianLauncher, and no worker is ever started for it.
C26_EmptySourcesRejected ==
    kind \in {"crawler", "stock"} =>
        \A i \in 1..N :
            /\ instances[i].sources # <<>>
            /\ proc[i].state # "none" => instances[i].sources # <<>>

\* the argument vector `node stock-guardian.js <label> <goal> <sources>
\* [<options>]`: one label out of `labels`, the goal, the JSON array of the
\* sources and, only when the job has options, their JSON object
WorkerArgs(args, labels, goal, sourcesJson, options) ==
    /\ Len(args) = 5 + Len(options)
    /\ args[1] = "node"
    /\ args[2] = "stock-guardian.js"
    /\ args[3] \in labels
    /\ args[4] = goal
    /\ args[5] = sourcesJson
    /\ options # <<>> => args[6] = options[1]

\* C27: every invoker of stock-guardian.js passes the same positional
\* arguments in the same order: the label, the goal, the JSON array of
\* sources and, only when present, the JSON options object.  This is said of
\* every worker a CrawlerLauncher, a StockGuardianLauncher or run_crawler has
\* running; a StockMonitorInstance has no goal, so any string stands for it.
C27_SameWorkerArguments ==
    /\ \A i \in 1..N :
          (kind \in {"crawler", "stock"} /\ proc[i].state = "running") =>
              \E goal \in {d.goal : d \in Descriptors} :
                  /\ kind = "crawler" => goal = instances[i].goal
                  /\ WorkerArgs(proc[i].args, {instances[i].label}, goal,
                                JsonDumpsList(instances[i].sources),
                                OptionsArg(instances[i]))
    /\ \A id \in DOMAIN jobs :
          wproc[id].state = "running" =>
              WorkerArgs(wproc[id].args, {jobs[id].ticker, jobs[id].topic},
                         jobs[id].goal, JsonDumpsList(jobs[id].sources),
                         IF jobs[id].metadata = EmptyMetadata THEN <<>>
                         ELSE <<JsonDumpsMetadata(jobs[id].metadata)>>)

\* C28: a worker invocation changes no shared mutable state.  A step taken
\* by an invocation (by run_instance for instance i, by run_crawler for job
\* id: the position of that execution moves) leaves the launcher's list of
\* instances, with the job descriptions in it, and the global registry
\* `jobs` as they were.
C28_InvocationTouchesNoSharedState ==
    [][/\ \A i \in Slots :
             (tpc[i] # "none" /\ tpc'[i] # tpc[i]) =>
                 /\ instances' = instances
                 /\ jobs' = jobs
       /\ \A id \in Ids :
             (rc_pc[id] # "none" /\ rc_pc'[id] # rc_pc[id]) =>
                 /\ instances' = instances
                 /\ jobs' = jobs]_vars

\* the worker process of job i is alive
Alive(i) == proc[i].state = "running"

\* run_all_sequential as seen from one of its states: one worker at a time,
\* in submission order, Results collected in submission order
OneAtATime ==
    /\ Cardinality({i \in 1..N : Alive(i)}) <= 1
    /\ \A i \in 1..N :
          tpc[i] # "none" =>
              /\ \A j \in 1..(i - 1) : tpc[j] = "done" /\ ~Alive(j)
              /\ Len(results) >= i - 1
    /\ \A i \in 1..N :
          tpc[i] = "none" =>
              /\ proc[i] = NoProc
              /\ \A j \in (i + 1)..N : tpc[j] = "none"
    /\ \A k \in 1..Len(results) : results[k].idx = k

\* C29: run_all_sequential runs the worker of each job to its terminal
\* outcome before it starts the worker of the next job.  While it runs, at
\* most one worker process of the batch is alive, a job is started only when
\* every job added before it has ended and had its Result collected and no
\* job added after it was started; when it returns, the N Results are in
\* submission order.
C29_SequentialOneAtATime ==
    [][/\ lpc' = "seq_loop" => OneAtATime'
       /\ (lpc = "seq_loop" /\ lpc' = "done") =>
             /\ OneAtATime'
             /\ Len(results') = N
             /\ \A i \in 1..N : tpc[i] = "done" /\ ~Alive(i)]_vars

\* the second job's worker runs after the first job's worker has ended
\* and its Result was collected
C29_Witness ==
    /\ lpc = "seq_loop"
    /\ N = 2
    /\ Alive(2)
    /\ proc[1].state \in {"exited", "killed"}
    /\ Len(results) = 1

\* C30: run_all_parallel starts one execution per job before it waits on any
\* of them, and returns only when every job has its terminal outcome.  While
\* it starts executions it has joined none and jobs 1..li-1 are the started
\* ones; when it goes on to the join loop every job has its execution; at
\* the step that returns, every execution has ended, no worker of the batch
\* is running, the queue is empty and every job has its Result in the
\* returned list.
C30_ParallelWaitsForAll ==
    [][/\ lpc' = "par_start" =>
             \A i \in 1..N : (tpc'[i] # "none") <=> (i < li')
       /\ lpc' = "par_join" =>
             \A i \in 1..N : tpc'[i] # "none"
       /\ (lpc = "par_join" /\ lpc' = "done") =>
             /\ \A i \in 1..N : tpc[i] = "done" /\ ~Alive(i)
             /\ result_queue' = <<>>
             /\ Len(results') = N
             /\ \A i \in 1..N :
                   \E k \in 1..Len(results') : results'[k].idx = i]_vars

\* run_all_parallel has returned the Results of two jobs, the Result of the
\* second job first
C30_Witness ==
    /\ lpc = "done"
    /\ N = 2
    /\ Len(results) = 2
    /\ results[1].idx = 2
    /\ \A i \in 1..N : ~Alive(i)

\* C31: run_all_parallel and run_all_sequential always terminate.  Once one
\* of them was called, whatever the batch (the empty one included) and
\* whatever mix of exits, timeouts and spawn errors the workers produce, the
\* call returns its list, given that every worker exits or reaches its
\* deadline.
C31_RunAllTerminates ==
    (lpc \in {"par_start", "par_join", "seq_loop"}) ~> (lpc = "done")

\* a call has returned for a batch of two whose first worker was killed at
\* its deadline and whose second worker exited with a non-zero code
C31_Witness ==
    /\ lpc = "done"
    /\ N = 2
    /\ proc[1].state = "killed"
    /\ proc[2].state = "exited"
    /\ proc[2].returncode # 0

\* C32: when the standard output of the worker is not a JSON document, the
\* job that run_crawler has returned for (and that was not deleted) has
\* status failed, a result made of the error text 'Failed to parse result',
\* the raw stdout and the stderr of the worker, a completed_at and the exit
\* code of the worker as return_code.
C32_ParseFailureKeepsOutput ==
    \A id \in Ids :
        (ReturnedAfterExit(id) /\ ~JsonLoads(Strip(wproc[id].stdout)).ok) =>
            /\ jobs[id].status = "failed"
            /\ jobs[id].result # None
            /\ DOMAIN jobs[id].result[1] = {"error", "stdout", "stderr"}
            /\ jobs[id].result[1].error = "Failed to parse result"
            /\ jobs[id].result[1].stdout = wproc[id].stdout
            /\ jobs[id].result[1].stderr = wproc[id].stderr
            /\ jobs[id].completed_at # None
            /\ "return_code" \in DOMAIN jobs[id]
            /\ jobs[id].return_code = wproc[id].returncode

\* run_crawler has returned for a job whose worker printed diagnostic text
\* and exited with code 0
C32_Witness ==
    \E id \in Ids :
        /\ ReturnedAfterExit(id)
        /\ wproc[id].stdout = <<"text", "ws">>
        /\ wproc[id].returncode = 0
        /\ jobs[id].status = "failed"

\* C33: a job is set to running before its worker is spawned and gets its
\* terminal status after the worker invocation has returned.  For every job
\* in the registry: while its worker process is alive its status is
\* running; while its status is queued no worker was started for it; once
\* its status is completed or failed its worker is not alive and its thread
\* is past the statements that write a status.
C33_RunningWhileWorkerAlive ==
    \A id \in DOMAIN jobs :
        /\ wproc[id].state = "running" => jobs[id].status = "running"
        /\ jobs[id].status = "queued" =>
              /\ wproc[id].state = "none"
              /\ spawns[id] = 0
        /\ jobs[id].status \in {"completed", "failed"} =>
              /\ wproc[id].state \in {"none", "exited"}
              /\ rc_pc[id] \in {"l62", "l63", "l67", "l68", "done"}

\* both jobs are registered as running and have their worker alive
C33_Witness ==
    /\ DOMAIN jobs = 1..MaxJobs
    /\ \A id \in DOMAIN jobs :
          /\ wproc[id].state = "running"
          /\ jobs[id].status = "running"
          /\ jobs[id].started_at # None

\* C34: the thread start_crawl starts never ends with an unhandled
\* exception: however DELETE /jobs/<id> interleaves with run_crawler, no
\* run_crawler execution is left by an exception.
C34_ThreadNeverCrashes ==
    \A id \in Ids : rc_pc[id] # "crashed"

\* C35: for every accepted submission the worker is launched exactly once:
\* never twice, and a thread that has ended has called subprocess.run and,
\* unless the operating system could not start the process, has started the
\* worker, also when the job was deleted before line 38 marked it running.
C35_WorkerLaunchedOnce ==
    \A id \in Ids :
        /\ spawns[id] <= 1
        /\ rc_pc[id] \in {"done", "crashed"} =>
              (spawns[id] = 1 \/ rc_exc[id] \in SpawnErrors)

\* the value of the key 'port' in the metadata of an instance
PortOf(inst) ==
    LET i == CHOOSE i \in 1..Len(inst.metadata) : inst.metadata[i][1] = "port"
    IN  inst.metadata[i][2]

\* C36: in ScraperLauncher and StockGuardianLauncher the instances added
\* without an explicit port (no descriptor names one) have pairwise distinct
\* ports: the k-th added instance, counting from 0, has base_port + k, also
\* when the caller passes the same dict object in several calls.
C36_DistinctPorts ==
    kind \in {"scraper", "stock"} =>
        /\ \A i \in 1..N :
              /\ HasKey(instances[i].metadata, "port")
              /\ PortOf(instances[i]) = BasePort + (i - 1)
        /\ \A i, j \in 1..N :
              i # j => PortOf(instances[i]) # PortOf(instances[j])

\* C37: run_all_parallel and run_all_sequential leave self.instances as it is
\* and keep no results between calls.  No step of a call changes the list of
\* instances; a call made after an earlier call has returned starts with an
\* empty list, an empty queue and no execution; and every return, the first
\* and the later ones, hands back exactly one Result per added job, each job
\* having been run in this call.
C37_RerunIsFresh ==
    [][/\ (lpc \notin {"idle", "done"} \/ lpc' \notin {"idle", "done"}) =>
             instances' = instances
       /\ (lpc = "done" /\ lpc' \in {"par_start", "seq_loop"}) =>
             /\ results' = <<>>
             /\ result_queue' = <<>>
             /\ \A i \in Slots : tpc'[i] = "none" /\ proc'[i] = NoProc
       /\ (lpc # "done" /\ lpc' = "done") =>
             /\ Len(results') = Len(instances')
             /\ \A i \in 1..Len(instances') :
                   /\ tpc'[i] = "done"
                   /\ Cardinality({k \in 1..Len(results') :
                                      results'[k].idx = i}) = 1]_vars

\* a second call on a launcher with two jobs has returned its two Results
C37_Witness ==
    /\ calls_left <= MaxCalls - 2
    /\ lpc = "done"
    /\ N = 2
    /\ Len(results) = 2

(***************************************************************************)
(* News fetcher and brief generator: properties.                           *)
(***************************************************************************)
\* C38: after any sequence of runs of fetch_news.main, news_articles.json
\* holds no two articles with the same non-empty uuid.
C38_NoDuplicateUuid ==
    news_file.shape = "articles" =>
        \A i \in 1..Len(news_file.data) : \A j \in 1..Len(news_file.data) :
            (i # j /\ news_file.data[i].uuid # <<>>) =>
                news_file.data[i].uuid # news_file.data[j].uuid

\* C39: generate_briefs_for_articles marks an article
\* analysis_briefs_generated only when it has no tickers or a crawl job for
\* one of its tickers got a success response from the crawler endpoint; an
\* article whose every brief generation or dispatch failed stays unmarked;
\* and a marked article is never processed again.
C39_MarkedOnlyWhenDelivered ==
    [][\A i \in 1..Len(articles) :
          /\ (~articles[i].analysis_briefs_generated
                  /\ articles'[i].analysis_briefs_generated)
                 => \/ articles[i].tickers = <<>>
                    \/ /\ gevent'.article = i
                       /\ \E k \in 1..Len(gevent'.outcomes) :
                              gevent'.outcomes[k] = "dispatched_ok"
          /\ articles[i].analysis_briefs_generated
                 => /\ articles'[i].analysis_briefs_generated
                    /\ gevent'.article = i => gevent'.skipped]_vars

====
